---- MODULE Spec2Model ----
(***************************************************************************)
(* Model of the folder comparison / synchronisation core of                *)
(* Compare_two_folders (src/src/compare.rs, sync.rs, utils.rs, models.rs). *)
(*                                                                         *)
(* Two directory trees are maps from relative paths to filesystem objects. *)
(* collect_files turns a tree into FileEntry values, compare_files_core    *)
(* classifies one common path, run_realtime / run_batch classify the union *)
(* of two inventories, run_sync derives and applies CREATE/UPDATE/DELETE.  *)
(*                                                                         *)
(* Option<T> is modelled as a sequence: None is <<>>, Some(x) is <<x>>.    *)
(* Relative paths are natural numbers; their order is the PathBuf order.   *)
(* A digest is modelled as an injective tag of the hashed bytes (the       *)
(* collision resistance of SHA-256 and BLAKE3 is assumed).                 *)
(* Time is counted in whole seconds.                                       *)
(***************************************************************************)
EXTENDS Naturals, Integers, Sequences, FiniteSets, TLC

VARIABLES folder1, folder2, walk_errors, config, realtime, batch,
          source, destination, sync_config, sync_runs,
          folder, snapshot_config, snapshot_file, captured, verified,
          dir, collect_args, pending, walkers, tx, tx_err, sent, consumer,
          global_pool, calls

vars == <<folder1, folder2, walk_errors, config, realtime, batch,
          source, destination, sync_config, sync_runs,
          folder, snapshot_config, snapshot_file, captured, verified,
          dir, collect_args, pending, walkers, tx, tx_err, sent, consumer,
          global_pool, calls>>

compare_vars == <<folder1, folder2, config, realtime, batch>>
sync_vars == <<source, destination, sync_config, sync_runs>>
snapshot_vars == <<folder, snapshot_config, snapshot_file, captured, verified>>
walk_vars == <<dir, collect_args, pending, walkers, tx, tx_err, sent, consumer>>
process_vars == <<global_pool, calls>>

----------------------------------------------------------------------------
(* Bounds of the model *)

MaxByte == 2
MaxLen == 1
MaxTime == 2
MaxWalkErrors == 1
MaxVaried == 2
MaxRuns == 2
MaxEntries == 3
MaxWalkers == 2
MaxCalls == 3

Paths == {1, 2}

----------------------------------------------------------------------------
(* Option and small helpers *)

None == <<>>

Some(x) == <<x>>

IsSome(o) == o # <<>>

Unwrap(o) == o[1]

RECURSIVE Fill(_, _)
Fill(n, b) == IF n = 0 THEN <<>> ELSE Append(Fill(n - 1, b), b)

RECURSIVE SeqSum(_)
SeqSum(s) == IF s = <<>> THEN 0 ELSE Head(s) + SeqSum(Tail(s))

Range(s) == {s[i] : i \in DOMAIN s}

\* Every enumeration of a finite set: the iteration orders a HashSet, a
\* HashMap or the walker channel can deliver.
Orderings(S) ==
    {s \in [1..Cardinality(S) -> S] : \A x \in S : \E i \in DOMAIN s : s[i] = x}

RECURSIVE Ascending(_)
Ascending(S) ==
    IF S = {} THEN <<>>
    ELSE LET m == CHOOSE x \in S : \A y \in S : x <= y
         IN  <<m>> \o Ascending(S \ {m})

Count(s, P(_)) == Cardinality({i \in DOMAIN s : P(s[i])})

----------------------------------------------------------------------------
(* Filesystem objects *)

Bytes == 1..MaxByte

Contents == {<<>>} \cup {Fill(n, b) : n \in 1..MaxLen, b \in Bytes}

Times == 1..MaxTime

\* Raw symlink targets as bytes: "a", an invalid byte 0xFF, and the
\* truncated three-byte sequence 0xE2 0x82.
RawTargets == {<<97>>, <<255>>, <<226, 130>>}

DefaultFile ==
    [kind |-> "file", data |-> <<1>>, modified |-> 1, readable |-> TRUE, raw |-> <<>>]

RegularFiles ==
    {[kind |-> "file", data |-> d, modified |-> t, readable |-> TRUE, raw |-> <<>>] :
        d \in Contents, t \in Times}

\* A file whose metadata can be read but whose bytes cannot (compute_hashes
\* and fs::copy fail on it).
UnreadableFiles ==
    {[kind |-> "file", data |-> <<1>>, modified |-> 1, readable |-> FALSE, raw |-> <<>>]}

\* A symbolic link to a readable regular file; data/modified describe what
\* is seen through the link, raw is the link's own target bytes.
SymlinkObjects ==
    {[kind |-> "symlink", data |-> <<1>>, modified |-> 1, readable |-> TRUE, raw |-> r] :
        r \in RawTargets}

Objects == RegularFiles \cup UnreadableFiles \cup SymlinkObjects

Trees(objs) == UNION {[S -> objs] : S \in SUBSET Paths}

Varied(tree) == Cardinality({p \in DOMAIN tree : tree[p] # DefaultFile})

EmptyTree == [p \in {} |-> DefaultFile]

----------------------------------------------------------------------------
(* models.rs *)

HashAlgo == {"Sha256", "Blake3", "Both"}

Mode == {"Realtime", "Batch", "Metadata"}

SymlinkMode == {"Ignore", "Follow", "Compare"}

HashResult(sha256, blake3) == [sha256 |-> sha256, blake3 |-> blake3]

FileEntry(path, size, modified, symlink_target) ==
    [path |-> path, size |-> size, modified |-> modified,
     symlink_target |-> symlink_target]

ErrorEntry(path, error) == [path |-> path, error |-> error]

ComparisonResult(file, status, hash1, hash2, size1, size2, modified1, modified2,
                 symlink1, symlink2) ==
    [file |-> file, status |-> status, hash1 |-> hash1, hash2 |-> hash2,
     size1 |-> size1, size2 |-> size2, modified1 |-> modified1,
     modified2 |-> modified2, symlink1 |-> symlink1, symlink2 |-> symlink2]

----------------------------------------------------------------------------
(* utils.rs *)

Sha256Hex(data) == [digest |-> "sha256", of |-> data]

Blake3Hex(data) == [digest |-> "blake3", of |-> data]

\* The tree below a root folder, and the object stored at an absolute path
\* (root folder, relative path).
TreeAt(root) ==
    CASE root = "folder1" -> folder1
      [] root = "folder2" -> folder2
      [] root = "source" -> source
      [] root = "destination" -> destination
      [] root = "folder" -> folder
      [] root = "dir" -> dir

ReadObject(path) == TreeAt(path.root)[path.rel]

\* compute_hashes: Err (None here) when the bytes cannot be read, otherwise
\* one digest per requested algorithm; fs::metadata and fs::read follow
\* symbolic links.
compute_hashes(path, algo) ==
    LET obj == ReadObject(path)
    IN  IF ~obj.readable THEN None
        ELSE Some(HashResult(
                 IF algo \in {"Sha256", "Both"} THEN Some(Sha256Hex(obj.data)) ELSE None,
                 IF algo \in {"Blake3", "Both"} THEN Some(Blake3Hex(obj.data)) ELSE None))

IsContinuation(b) == b >= 128 /\ b <= 191

\* OsStr::to_string_lossy over the bytes used here: ASCII is kept, the
\* three-byte lead 0xE2 with two continuation bytes decodes to one scalar,
\* every maximal ill-formed prefix becomes one U+FFFD (65533).
RECURSIVE ToStringLossy(_)
ToStringLossy(raw) ==
    IF raw = <<>> THEN <<>>
    ELSE LET b == raw[1]
             rest(k) == SubSeq(raw, k + 1, Len(raw))
         IN  IF b < 128 THEN <<b>> \o ToStringLossy(rest(1))
             ELSE IF b = 226 /\ Len(raw) >= 2 /\ IsContinuation(raw[2])
                  THEN IF Len(raw) >= 3 /\ IsContinuation(raw[3])
                       THEN <<8192 + (raw[2] - 128) * 64 + (raw[3] - 128)>>
                                \o ToStringLossy(rest(3))
                       ELSE <<65533>> \o ToStringLossy(rest(2))
                  ELSE <<65533>> \o ToStringLossy(rest(1))

\* The file type the walker reports: with follow_links the type of the
\* link's target, otherwise the type of the entry itself.
is_symlink(obj, symlink_mode) == obj.kind = "symlink" /\ symlink_mode # "Follow"

is_file(obj, symlink_mode) ==
    obj.kind = "file" \/ (obj.kind = "symlink" /\ symlink_mode = "Follow")

should_include(obj, symlink_mode) ==
    CASE symlink_mode = "Ignore" -> is_file(obj, symlink_mode)
      [] symlink_mode = "Follow" -> is_file(obj, symlink_mode)
      [] symlink_mode = "Compare" ->
            is_file(obj, symlink_mode) \/ is_symlink(obj, symlink_mode)

\* The FileEntry the walker closure sends for an included object: size and
\* mtime from entry.metadata() (lstat unless links are followed), the
\* symlink target only in Compare mode.
entry_data(root, rel, obj, symlink_mode) ==
    IF is_symlink(obj, symlink_mode)
    THEN FileEntry([root |-> root, rel |-> rel], Len(obj.raw), Some(obj.modified),
                   IF symlink_mode = "Compare" THEN Some(ToStringLossy(obj.raw)) ELSE None)
    ELSE FileEntry([root |-> root, rel |-> rel], Len(obj.data), Some(obj.modified), None)

\* The relative paths of a walked directory: 1 is "a.txt", 2 is "b.tmp",
\* 3 is "d.tmp" (a directory when it holds 4), 4 is "d.tmp/c.TXT" and 5 is
\* the hidden ".h.txt".
WalkPaths == 1..5

\* The parent of a relative path (0 is the walked root itself).
Parent(rel) == IF rel = 4 THEN 3 ELSE 0

\* The file name starts with a dot.
IsHidden(rel) == rel = 5

\* Path::extension of a relative path.
Extension(rel) ==
    CASE rel = 2 -> "tmp"
      [] rel = 3 -> "tmp"
      [] rel = 4 -> "TXT"
      [] OTHER -> "txt"

\* The characters of the extensions and of the type arguments used here.
Chars(str) ==
    CASE str = "txt" -> <<116, 120, 116>>
      [] str = "tmp" -> <<116, 109, 112>>
      [] str = "TXT" -> <<84, 88, 84>>
      [] str = ".TXT" -> <<46, 84, 88, 84>>
      [] str = ".tmp" -> <<46, 116, 109, 112>>

\* str::to_lowercase on ASCII text.
to_lowercase(chars) ==
    [i \in DOMAIN chars |-> IF chars[i] >= 65 /\ chars[i] <= 90 THEN chars[i] + 32
                            ELSE chars[i]]

\* str::trim_start_matches('.').
RECURSIVE trim_start_matches_dot(_)
trim_start_matches_dot(chars) ==
    IF chars # <<>> /\ Head(chars) = 46 THEN trim_start_matches_dot(Tail(chars))
    ELSE chars

\* The set of extensions built from the types argument.
type_filter(types) ==
    IF types = None THEN None
    ELSE Some({to_lowercase(trim_start_matches_dot(Chars(ext))) :
                  ext \in Range(Unwrap(types))})

\* Variant: the extension of the entry is compared as it is spelled.
extension_admitted_case_sensitive(exts, rel) ==
    exts = None \/ Chars(Extension(rel)) \in Unwrap(exts)

\* The extension test of the closure: no filter admits every entry.
extension_admitted(exts, rel) ==
    exts = None \/ to_lowercase(Chars(Extension(rel))) \in Unwrap(exts)

\* The ignore patterns a configuration can carry: a pattern matching every
\* ".tmp" path and an unclosed character class.
GlobPatterns == {"*.tmp", "["}

\* Glob::new: Err (None) for a pattern that does not parse.
glob_new(p) == IF p = "[" THEN None ELSE Some(p)

\* The GlobSet built from the configured patterns; err when Glob::new
\* failed on one of them (the ? operators return from collect_files).
custom_ignore_set(ignore_patterns) ==
    IF ignore_patterns = None THEN [err |-> FALSE, set |-> {}]
    ELSE LET pats == Range(Unwrap(ignore_patterns))
         IN  [err |-> \E p \in pats : glob_new(p) = None,
              set |-> {p \in pats : glob_new(p) # None}]

\* GlobSet::is_match on the path of an entry.
glob_is_match(set, rel) == \E p \in set : p = "*.tmp" /\ Extension(rel) = "tmp"

\* What the parallel walker hands to the closure for a root: one Err per
\* walk error and one Ok entry per object of the tree.
WalkErr(k) == [ok |-> FALSE, rel |-> 0, k |-> k]

WalkOk(rel) == [ok |-> TRUE, rel |-> rel, k |-> 0]

walk_results(root) ==
    {WalkErr(k) : k \in 1..walk_errors[root]} \cup {WalkOk(p) : p \in DOMAIN TreeAt(root)}

\* Variant: the closure stops the walk at the first Err (WalkState::Quit).
walker_closure_quit(acc, result, root, set, exts, symlink_mode) ==
    IF acc.quit THEN acc
    ELSE IF ~result.ok THEN [acc EXCEPT !.errors = @ + 1, !.quit = TRUE]
    ELSE LET obj == TreeAt(root)[result.rel]
         IN  IF glob_is_match(set, result.rel) THEN acc
             ELSE IF ~should_include(obj, symlink_mode) THEN acc
             ELSE IF ~extension_admitted(exts, result.rel) THEN acc
             ELSE [acc EXCEPT !.files =
                      [q \in DOMAIN acc.files \cup {result.rel} |->
                          IF q = result.rel
                          THEN entry_data(root, result.rel, obj, symlink_mode)
                          ELSE acc.files[q]]]

\* One call of the walker closure: an Err is sent to the error channel, an
\* entry that passes the ignore set, the symlink policy and the extension
\* filter is sent to the file channel; the closure always returns
\* WalkState::Continue (quit stays FALSE).
walker_closure(acc, result, root, set, exts, symlink_mode) ==
    IF ~result.ok THEN [acc EXCEPT !.errors = @ + 1]
    ELSE LET obj == TreeAt(root)[result.rel]
         IN  IF glob_is_match(set, result.rel) THEN acc
             ELSE IF ~should_include(obj, symlink_mode) THEN acc
             ELSE IF ~extension_admitted(exts, result.rel) THEN acc
             ELSE [acc EXCEPT !.files =
                      [q \in DOMAIN acc.files \cup {result.rel} |->
                          IF q = result.rel
                          THEN entry_data(root, result.rel, obj, symlink_mode)
                          ELSE acc.files[q]]]

\* walker.run: the closure applied to the walk results in delivery order.
RECURSIVE walker_run(_, _, _, _, _, _)
walker_run(acc, delivered, root, set, exts, symlink_mode) ==
    IF delivered = <<>> THEN acc
    ELSE walker_run(walker_closure(acc, Head(delivered), root, set, exts, symlink_mode),
                    Tail(delivered), root, set, exts, symlink_mode)

NoFiles == [p \in {} |-> FileEntry([root |-> "folder1", rel |-> 0], 0, None, None)]

\* The walk of a root for a given delivery order: the inventory keyed by
\* relative path and the number of ErrorEntry values.
walk(root, delivered, set, exts, symlink_mode) ==
    walker_run([files |-> NoFiles, errors |-> 0, quit |-> FALSE],
               delivered, root, set, exts, symlink_mode)

\* A delivery order: the walk errors, then the entries in path order.  (The
\* inventory and the error count do not depend on the order.)
delivery(root) ==
    LET entries == Ascending(DOMAIN TreeAt(root))
    IN  [k \in 1..walk_errors[root] |-> WalkErr(k)]
            \o [i \in DOMAIN entries |-> WalkOk(entries[i])]

\* Variant: a pattern that does not parse is left out of the set.
collect_files_skip_invalid(root, ignore_patterns, symlink_mode) ==
    LET ignore == custom_ignore_set(ignore_patterns)
        walked == walk(root, delivery(root), ignore.set, type_filter(None), symlink_mode)
    IN  [err |-> FALSE, files |-> walked.files, errors |-> walked.errors]

\* Variant: a walk that reported an error makes collect_files return Err.
collect_files_abort_on_error(root, ignore_patterns, symlink_mode) ==
    LET ignore == custom_ignore_set(ignore_patterns)
        walked == walk(root, delivery(root), ignore.set, type_filter(None), symlink_mode)
    IN  IF ignore.err \/ walked.errors > 0
        THEN [err |-> TRUE, files |-> NoFiles, errors |-> 0]
        ELSE [err |-> FALSE, files |-> walked.files, errors |-> walked.errors]

\* collect_files with the ignore patterns and the symlink policy (no depth
\* limit, no types argument, a flat directory without hidden files): err when a pattern is invalid, otherwise
\* the inventory keyed by relative path and the number of ErrorEntry values.
collect_files(root, ignore_patterns, symlink_mode) ==
    LET ignore == custom_ignore_set(ignore_patterns)
        walked == walk(root, delivery(root), ignore.set, type_filter(None), symlink_mode)
    IN  IF ignore.err THEN [err |-> TRUE, files |-> NoFiles, errors |-> 0]
        ELSE [err |-> FALSE, files |-> walked.files, errors |-> walked.errors]

\* The arguments of one collect_files call on the directory dir (no depth
\* limit).
CollectArgs(hidden, types, ignore_patterns, symlink_mode) ==
    [hidden |-> hidden, types |-> types, ignore_patterns |-> ignore_patterns,
     symlink_mode |-> symlink_mode]

\* What the walker built with hidden(!hidden) yields below a directory (0 is
\* the root): its entries, the hidden ones only when hidden is set.
read_dir(tree, rel, hidden) ==
    {WalkOk(c) : c \in {q \in DOMAIN tree : Parent(q) = rel /\ (hidden \/ ~IsHidden(q))}}

\* Variant: a rendezvous channel, on which a send waits for the receiver.
send_ready_rendezvous(queue, receiving) == receiving

\* mpsc::channel() is asynchronous with an unbounded buffer: a send never
\* blocks, whether or not the receiver is receiving.
send_ready(queue, receiving) == TRUE

\* The closure called by a walker thread on one walk result, from an empty
\* accumulator: files holds the FileEntry it sends on tx (if any), errors
\* the number of ErrorEntry values it sends on tx_err.
closure_call(result, args) ==
    walker_closure([files |-> NoFiles, errors |-> 0, quit |-> FALSE], result, "dir",
                   custom_ignore_set(args.ignore_patterns).set, type_filter(args.types),
                   args.symlink_mode)

----------------------------------------------------------------------------
(* The global thread pool of rayon *)

\* Variant: the global pool can be configured again.
build_global_always_ok(threads, pool_taken) == TRUE

\* ThreadPoolBuilder::build_global: Err (FALSE) when the global pool of the
\* process has been initialised before.
build_global(threads, pool_taken) == ~pool_taken

\* The global pool after a call that found it in state pool: an explicit
\* thread count configures an unset pool, the first parallel operation of a
\* call without one initialises it with the default size, and an
\* initialised pool never changes.
pool_after(pool, threads, used_rayon) ==
    IF pool # "unset" THEN pool
    ELSE IF IsSome(threads) THEN "configured"
    ELSE IF used_rayon THEN "default"
    ELSE "unset"

----------------------------------------------------------------------------
(* compare.rs *)

ExitStatus == {"Success", "Diff", "Error"}

\* The comparison runs are modelled without ignore patterns.
CompareConfig(folder1_root, folder2_root, mode, algo, symlinks, no_sort) ==
    [folder1 |-> folder1_root, folder2 |-> folder2_root, mode |-> mode, algo |-> algo,
     symlinks |-> symlinks, no_sort |-> no_sort, ignore |-> None]

\* DateTime::<Local>::from(t).format("%Y-%m-%d %H:%M:%S") of a time given in
\* whole seconds.
format_time(modified) ==
    IF IsSome(modified) THEN Some([ymd_hms |-> Unwrap(modified)]) ELSE None

\* The comparison of the digests under the configured algorithm.
is_match(h1, h2, algo) ==
    CASE algo = "Sha256" -> h1.sha256 = h2.sha256
      [] algo = "Blake3" -> h1.blake3 = h2.blake3
      [] algo = "Both" -> h1.sha256 = h2.sha256 /\ h1.blake3 = h2.blake3

\* Variant: only a symlink on side 1 counts as a type mismatch.
type_mismatch_one_sided(s1, s2) == IsSome(s1) /\ ~IsSome(s2)

\* The test for exactly one side being a symlink.
type_mismatch(s1, s2) == IsSome(s1) # IsSome(s2)

\* Variant: two symlinks always count as equal.
symlink_targets_match_always(s1, s2) == TRUE

\* The comparison of the two target strings.
symlink_targets_match(s1, s2) == s1 = s2

\* Variant: the short-circuit fires only when side 1 is the larger file.
sizes_differ_larger(entry1, entry2) == entry1.size > entry2.size

\* The size short-circuit test.
sizes_differ(entry1, entry2) == entry1.size # entry2.size

\* Variant: the modification times are never seen as different.
modified_differ_never(entry1, entry2) == FALSE

\* The Metadata-mode test on the recorded modification times.
modified_differ(entry1, entry2) == entry1.modified # entry2.modified

\* Variant: a hashing failure is treated as a difference.
hash_status_err_is_diff(h1_res, h2_res, algo) ==
    IF IsSome(h1_res) /\ IsSome(h2_res)
    THEN IF is_match(Unwrap(h1_res), Unwrap(h2_res), algo) THEN "MATCH" ELSE "DIFF"
    ELSE "DIFF"

\* The status decided from the two compute_hashes outcomes.
hash_status(h1_res, h2_res, algo) ==
    IF IsSome(h1_res) /\ IsSome(h2_res)
    THEN IF is_match(Unwrap(h1_res), Unwrap(h2_res), algo) THEN "MATCH" ELSE "DIFF"
    ELSE "ERROR"

\* compare_files_core, instrumented: result is the ComparisonResult,
\* hasher_calls the number of compute_hashes invocations it made.
compare_files_core(rel_path, entry1, entry2, cfg) ==
    LET size1 == Some(entry1.size)
        size2 == Some(entry2.size)
        time1_str == format_time(entry1.modified)
        time2_str == format_time(entry2.modified)
        s1 == entry1.symlink_target
        s2 == entry2.symlink_target
        h1_res == compute_hashes(entry1.path, cfg.algo)
        h2_res == compute_hashes(entry2.path, cfg.algo)
    IN  IF cfg.symlinks = "Compare" /\ IsSome(s1) /\ IsSome(s2)
        THEN [result |-> ComparisonResult(rel_path,
                             IF symlink_targets_match(s1, s2) THEN "MATCH" ELSE "DIFF",
                             None, None, None, None, time1_str, time2_str, s1, s2),
              hasher_calls |-> 0]
        ELSE IF cfg.symlinks = "Compare" /\ type_mismatch(s1, s2)
        THEN [result |-> ComparisonResult(rel_path, "DIFF",
                             None, None, None, None, time1_str, time2_str, s1, s2),
              hasher_calls |-> 0]
        ELSE IF sizes_differ(entry1, entry2)
        THEN [result |-> ComparisonResult(rel_path, "DIFF",
                             None, None, size1, size2, time1_str, time2_str, None, None),
              hasher_calls |-> 0]
        ELSE IF cfg.mode = "Metadata"
        THEN [result |-> ComparisonResult(rel_path,
                             IF modified_differ(entry1, entry2) THEN "DIFF" ELSE "MATCH",
                             None, None, size1, size2, time1_str, time2_str, None, None),
              hasher_calls |-> 0]
        ELSE LET both_ok == IsSome(h1_res) /\ IsSome(h2_res)
             IN  [result |-> ComparisonResult(rel_path,
                                 hash_status(h1_res, h2_res, cfg.algo),
                                 IF both_ok THEN h1_res ELSE None,
                                 IF both_ok THEN h2_res ELSE None,
                                 size1, size2, time1_str, time2_str, None, None),
                  hasher_calls |-> 2]

\* Variant: every path-only result is labelled MISSING.
path_only_missing(rel_path, status) ==
    ComparisonResult(rel_path, "MISSING", None, None, None, None, None, None, None, None)

\* A result that carries only a path and a status (MISSING, EXTRA).
path_only(rel_path, status) ==
    ComparisonResult(rel_path, status, None, None, None, None, None, None, None, None)

\* Vec::sort_by on the file key (stable insertion sort).
RECURSIVE InsertByFile(_, _)
InsertByFile(sorted, r) ==
    IF sorted = <<>> THEN <<r>>
    ELSE IF sorted[Len(sorted)].file <= r.file THEN Append(sorted, r)
    ELSE Append(InsertByFile(SubSeq(sorted, 1, Len(sorted) - 1), r), sorted[Len(sorted)])

RECURSIVE SortByFile(_)
SortByFile(s) ==
    IF s = <<>> THEN <<>>
    ELSE InsertByFile(SortByFile(SubSeq(s, 1, Len(s) - 1)), s[Len(s)])

\* Variant: differences take precedence over errors.
exit_status_diff_first(total_errors, diffs, missing, extra) ==
    IF diffs > 0 \/ missing > 0 \/ extra > 0 THEN "Diff"
    ELSE IF total_errors > 0 THEN "Error"
    ELSE "Success"

\* The final three-way status of run_realtime and run_batch.
exit_status(total_errors, diffs, missing, extra) ==
    IF total_errors > 0 THEN "Error"
    ELSE IF diffs > 0 \/ missing > 0 \/ extra > 0 THEN "Diff"
    ELSE "Success"

SummaryData(total, matches, diffs, missing, extra, errors) ==
    [total |-> total, matches |-> matches, diffs |-> diffs, missing |-> missing,
     extra |-> extra, errors |-> errors]

\* run_batch over the two collected inventories; common_order, missing_order
\* and extra_order are the iteration orders of the three path sets.
run_batch(cfg, common_order, missing_order, extra_order) ==
    LET c1 == collect_files(cfg.folder1, cfg.ignore, cfg.symlinks)
        c2 == collect_files(cfg.folder2, cfg.ignore, cfg.symlinks)
        files1_map == c1.files
        files2_map == c2.files
        total_errors == c1.errors + c2.errors
        cmp(p) == compare_files_core(p, files1_map[p], files2_map[p], cfg)
        compared == [i \in DOMAIN common_order |-> cmp(common_order[i]).result]
        pushed == compared
                    \o [i \in DOMAIN missing_order |-> path_only(missing_order[i], "MISSING")]
                    \o [i \in DOMAIN extra_order |-> path_only(extra_order[i], "EXTRA")]
        all_results == IF ~cfg.no_sort THEN SortByFile(pushed) ELSE pushed
        matches == Count(all_results, LAMBDA r : r.status = "MATCH")
        diffs == Count(all_results, LAMBDA r : r.status = "DIFF")
        missing == Count(all_results, LAMBDA r : r.status = "MISSING")
        extra == Count(all_results, LAMBDA r : r.status = "EXTRA")
    IN  [mode |-> cfg.mode,
         results |-> all_results,
         summary |-> SummaryData(Len(all_results), matches, diffs, missing, extra,
                                 total_errors),
         hasher_calls |-> [p \in Range(common_order) |-> cmp(p).hasher_calls],
         exit |-> exit_status(total_errors, diffs, missing, extra)]

\* Variant: the loop looks entries up in files2_map without removing them.
RECURSIVE realtime_loop_keep(_, _, _)
realtime_loop_keep(files1, acc, cfg) ==
    IF files1 = <<>> THEN acc
    ELSE LET entry1 == Head(files1)
             rel_path == entry1.path.rel
         IN  IF rel_path \in DOMAIN acc.files2_map
             THEN LET entry2 == acc.files2_map[rel_path]
                      c == compare_files_core(rel_path, entry1, entry2, cfg)
                  IN  realtime_loop_keep(Tail(files1),
                          [acc EXCEPT
                              !.matches = IF c.result.status = "MATCH" THEN @ + 1 ELSE @,
                              !.diffs = IF c.result.status = "DIFF" THEN @ + 1 ELSE @,
                              !.printed = Append(@, c.result),
                              !.hasher_calls = Append(@, <<rel_path, c.hasher_calls>>)],
                          cfg)
             ELSE realtime_loop_keep(Tail(files1),
                      [acc EXCEPT !.missing = @ + 1,
                                  !.printed = Append(@, path_only(rel_path, "MISSING"))],
                      cfg)

\* The loop of run_realtime over files1: acc carries the printed lines, the
\* counters, the hasher instrumentation and what is left of files2_map.
RECURSIVE realtime_loop(_, _, _)
realtime_loop(files1, acc, cfg) ==
    IF files1 = <<>> THEN acc
    ELSE LET entry1 == Head(files1)
             rel_path == entry1.path.rel
         IN  IF rel_path \in DOMAIN acc.files2_map
             THEN LET entry2 == acc.files2_map[rel_path]
                      c == compare_files_core(rel_path, entry1, entry2, cfg)
                  IN  realtime_loop(Tail(files1),
                          [acc EXCEPT
                              !.files2_map = [q \in DOMAIN acc.files2_map \ {rel_path} |->
                                                  acc.files2_map[q]],
                              !.matches = IF c.result.status = "MATCH" THEN @ + 1 ELSE @,
                              !.diffs = IF c.result.status = "DIFF" THEN @ + 1 ELSE @,
                              !.printed = Append(@, c.result),
                              !.hasher_calls = Append(@, <<rel_path, c.hasher_calls>>)],
                          cfg)
             ELSE realtime_loop(Tail(files1),
                      [acc EXCEPT !.missing = @ + 1,
                                  !.printed = Append(@, path_only(rel_path, "MISSING"))],
                      cfg)

\* run_realtime; discovery1 is the order in which the walk of folder1
\* delivered its entries, extra_order the iteration order of what is left of
\* files2_map.
run_realtime(cfg, discovery1, extra_order) ==
    LET c1 == collect_files(cfg.folder1, cfg.ignore, cfg.symlinks)
        c2 == collect_files(cfg.folder2, cfg.ignore, cfg.symlinks)
        order1 == IF ~cfg.no_sort THEN Ascending(Range(discovery1)) ELSE discovery1
        files1 == [i \in DOMAIN order1 |-> c1.files[order1[i]]]
        done == realtime_loop(files1,
                    [files2_map |-> c2.files, matches |-> 0, diffs |-> 0, missing |-> 0,
                     printed |-> <<>>, hasher_calls |-> <<>>],
                    cfg)
        extra == Cardinality(DOMAIN done.files2_map)
        sorted_extra == IF ~cfg.no_sort THEN Ascending(Range(extra_order)) ELSE extra_order
        total == Len(files1) + extra
        total_errors == c1.errors + c2.errors
    IN  [mode |-> cfg.mode,
         results |-> done.printed
                        \o [i \in DOMAIN sorted_extra |-> path_only(sorted_extra[i], "EXTRA")],
         summary |-> SummaryData(total, done.matches, done.diffs, done.missing, extra,
                                 total_errors),
         hasher_calls |-> [p \in {h[1] : h \in Range(done.hasher_calls)} |->
                              SeqSum([i \in DOMAIN done.hasher_calls |->
                                  IF done.hasher_calls[i][1] = p
                                  THEN done.hasher_calls[i][2] ELSE 0])],
         exit |-> exit_status(total_errors, done.diffs, done.missing, extra)]

\* run_compare: the thread pool is configured first when a thread count is
\* given, then the mode selects run_realtime or run_batch; threads is
\* config.threads, pool_taken tells whether the global thread pool had been
\* initialised before the call, report is None when the call returned Err.
run_compare(cfg, threads, pool_taken, discovery1, common_order, missing_order, extra_order) ==
    IF IsSome(threads) /\ ~build_global(threads, pool_taken)
    THEN [ok |-> FALSE, report |-> None]
    ELSE IF cfg.mode = "Realtime"
    THEN [ok |-> TRUE, report |-> Some(run_realtime(cfg, discovery1, extra_order))]
    ELSE [ok |-> TRUE,
          report |-> Some(run_batch(cfg, common_order, missing_order, extra_order))]

----------------------------------------------------------------------------
(* sync.rs *)

SyncConfig(algo, symlinks, delete_extraneous, no_delete, dry_run, ignore, threads) ==
    [source |-> "source", destination |-> "destination", dry_run |-> dry_run,
     delete_extraneous |-> delete_extraneous, no_delete |-> no_delete, algo |-> algo,
     symlinks |-> symlinks, ignore |-> ignore, threads |-> threads]

SyncAction(file, status) == [file |-> file, status |-> status]

\* Variant: a quick check on size and modification time only.
needs_update_metadata_only(source_entry, dest_entry, algo) ==
    source_entry.size # dest_entry.size \/ source_entry.modified # dest_entry.modified

\* Variant: the short-circuit on size and modification time applies under
\* every algorithm selection.
needs_update_any_algo(source_entry, dest_entry, algo) ==
    IF source_entry.size = dest_entry.size /\ source_entry.modified = dest_entry.modified
    THEN FALSE
    ELSE LET h_source_res == compute_hashes(source_entry.path, algo)
             h_dest_res == compute_hashes(dest_entry.path, algo)
         IN  IF IsSome(h_source_res) /\ IsSome(h_dest_res)
             THEN ~is_match(Unwrap(h_source_res), Unwrap(h_dest_res), algo)
             ELSE TRUE

\* The filter_map closure over a common path: hashed tells whether
\* compute_hashes was invoked, is_diff whether an UPDATE is derived.
needs_update(source_entry, dest_entry, algo) ==
    IF source_entry.size = dest_entry.size /\ algo = "Both"
          /\ source_entry.modified = dest_entry.modified
    THEN FALSE
    ELSE LET h_source_res == compute_hashes(source_entry.path, algo)
             h_dest_res == compute_hashes(dest_entry.path, algo)
         IN  IF IsSome(h_source_res) /\ IsSome(h_dest_res)
             THEN LET h_source == Unwrap(h_source_res)
                      h_dest == Unwrap(h_dest_res)
                  IN  CASE algo = "Sha256" -> h_source.sha256 # h_dest.sha256
                        [] algo = "Blake3" -> h_source.blake3 # h_dest.blake3
                        [] algo = "Both" -> h_source.sha256 # h_dest.sha256
                                               \/ h_source.blake3 # h_dest.blake3
             ELSE TRUE

\* The paths compute_hashes is invoked for.
hashed_paths(source_map, dest_map, algo) ==
    {p \in DOMAIN source_map \cap DOMAIN dest_map :
        ~(source_map[p].size = dest_map[p].size /\ algo = "Both"
            /\ source_map[p].modified = dest_map[p].modified)}

\* Variant: the test of the flag is inverted.
delete_candidates_inverted(source_paths, dest_paths, delete_extraneous) ==
    IF ~delete_extraneous THEN dest_paths \ source_paths ELSE {}

\* Variant: extraneous destination paths are deleted whatever the flag says.
delete_candidates_always(source_paths, dest_paths, delete_extraneous) ==
    dest_paths \ source_paths

\* The destination-only paths that receive a DELETE action.
delete_candidates(source_paths, dest_paths, delete_extraneous) ==
    IF delete_extraneous THEN dest_paths \ source_paths ELSE {}

\* The sorted action list derived from the two inventories; the three orders
\* are the iteration orders of the path sets.
derive_actions(cfg, source_map, dest_map, create_order, delete_order, update_order) ==
    LET creates == [i \in DOMAIN create_order |-> SyncAction(create_order[i], "CREATE")]
        deletes == [i \in DOMAIN delete_order |-> SyncAction(delete_order[i], "DELETE")]
        updates == [i \in DOMAIN update_order |-> SyncAction(update_order[i], "UPDATE")]
    IN  SortByFile(creates \o deletes \o updates)

\* std::fs::copy onto a destination path: the bytes and the permission bits
\* of the source, written at time now.  It fails (None) when the source
\* cannot be read or an existing destination cannot be opened for writing.
fs_copy(source_obj, dest_opt, writable, now) ==
    IF ~source_obj.readable THEN None
    ELSE IF IsSome(dest_opt) /\ ~Unwrap(dest_opt).readable /\ ~writable THEN None
    ELSE Some([kind |-> "file", data |-> source_obj.data, modified |-> now,
               readable |-> TRUE, raw |-> <<>>])

Lookup(tree, p) == IF p \in DOMAIN tree THEN Some(tree[p]) ELSE None

Store(tree, p, obj) == [q \in DOMAIN tree \cup {p} |-> IF q = p THEN obj ELSE tree[q]]

Remove(tree, p) == [q \in DOMAIN tree \ {p} |-> tree[q]]

\* Variant: a failed copy or removal is skipped and the loop goes on.
apply_action_skip_failed(st, action, writable, removable, now) ==
    IF action.status \in {"CREATE", "UPDATE"}
    THEN LET copied == fs_copy(st.src[action.file], Lookup(st.dest, action.file),
                               writable, now)
         IN  IF copied = None THEN st
             ELSE [st EXCEPT !.dest = Store(st.dest, action.file, Unwrap(copied)),
                             !.created_count = IF action.status = "CREATE" THEN @ + 1 ELSE @,
                             !.updated_count = IF action.status = "UPDATE" THEN @ + 1 ELSE @]
    ELSE IF ~removable THEN st
    ELSE [st EXCEPT !.dest = Remove(st.dest, action.file), !.deleted_count = @ + 1]

\* Variant: only CREATE copies; UPDATE is counted but nothing is written.
apply_action_create_only(st, action, writable, removable, now) ==
    IF action.status = "CREATE"
    THEN LET copied == fs_copy(st.src[action.file], Lookup(st.dest, action.file),
                               writable, now)
         IN  IF copied = None THEN [st EXCEPT !.failed = TRUE]
             ELSE [st EXCEPT !.dest = Store(st.dest, action.file, Unwrap(copied)),
                             !.created_count = @ + 1]
    ELSE IF action.status = "UPDATE"
    THEN [st EXCEPT !.updated_count = @ + 1]
    ELSE IF ~removable THEN [st EXCEPT !.failed = TRUE]
    ELSE [st EXCEPT !.dest = Remove(st.dest, action.file), !.deleted_count = @ + 1]

\* Variant: an UPDATE copies the destination file over the source file.
apply_action_reversed(st, action, writable, removable, now) ==
    IF action.status = "UPDATE"
    THEN LET copied == fs_copy(st.dest[action.file], Lookup(st.src, action.file),
                               writable, now)
         IN  IF copied = None THEN [st EXCEPT !.failed = TRUE]
             ELSE [st EXCEPT !.src = Store(st.src, action.file, Unwrap(copied)),
                             !.updated_count = @ + 1]
    ELSE IF action.status = "CREATE"
    THEN LET copied == fs_copy(st.src[action.file], Lookup(st.dest, action.file),
                               writable, now)
         IN  IF copied = None THEN [st EXCEPT !.failed = TRUE]
             ELSE [st EXCEPT !.dest = Store(st.dest, action.file, Unwrap(copied)),
                             !.created_count = @ + 1]
    ELSE IF ~removable THEN [st EXCEPT !.failed = TRUE]
    ELSE [st EXCEPT !.dest = Remove(st.dest, action.file), !.deleted_count = @ + 1]

\* One non-dry-run iteration of the apply loop on the two trees (src is the
\* source tree, dest the destination tree): the copy reads
\* source.join(file) and writes destination.join(file); fs::remove_file
\* fails when the entry cannot be removed.
apply_action(st, action, writable, removable, now) ==
    IF action.status \in {"CREATE", "UPDATE"}
    THEN LET copied == fs_copy(st.src[action.file], Lookup(st.dest, action.file),
                               writable, now)
         IN  IF copied = None THEN [st EXCEPT !.failed = TRUE]
             ELSE [st EXCEPT !.dest = Store(st.dest, action.file, Unwrap(copied)),
                             !.created_count = IF action.status = "CREATE" THEN @ + 1 ELSE @,
                             !.updated_count = IF action.status = "UPDATE" THEN @ + 1 ELSE @]
    ELSE IF ~removable THEN [st EXCEPT !.failed = TRUE]
    ELSE [st EXCEPT !.dest = Remove(st.dest, action.file), !.deleted_count = @ + 1]

\* Variant: the loop applies the actions whatever dry_run says.
RECURSIVE apply_actions_ignore_dry_run(_, _, _, _, _, _)
apply_actions_ignore_dry_run(st, actions, dry_run, writable, removable, now) ==
    IF actions = <<>> \/ st.failed THEN st
    ELSE apply_actions_ignore_dry_run(
             LET next == apply_action(st, Head(actions), writable, removable, now)
             IN  IF next.failed THEN next
                 ELSE [next EXCEPT !.applied = Append(@, Head(actions))],
             Tail(actions), dry_run, writable, removable, now)

\* The apply loop: a failed mutation returns at once, dry-run only prints.
RECURSIVE apply_actions(_, _, _, _, _, _)
apply_actions(st, actions, dry_run, writable, removable, now) ==
    IF actions = <<>> \/ st.failed THEN st
    ELSE IF dry_run
    THEN apply_actions([st EXCEPT !.reported = Append(@, Head(actions))],
                       Tail(actions), dry_run, writable, removable, now)
    ELSE apply_actions(
             LET next == apply_action(st, Head(actions), writable, removable, now)
             IN  IF next.failed THEN next
                 ELSE [next EXCEPT !.applied = Append(@, Head(actions))],
             Tail(actions), dry_run, writable, removable, now)

\* The record of an invocation that returned an error before the action list
\* was derived.
aborted_run(before, pool_taken) ==
    [before |-> before, after |-> before, source_before |-> source,
     source_after |-> source, actions |-> <<>>, applied |-> <<>>,
     reported |-> <<>>, hashed |-> {}, created_count |-> 0, updated_count |-> 0,
     deleted_count |-> 0, errors |-> 0, result |-> "Err", failure |-> "config",
     pool_taken |-> pool_taken]

\* run_sync: the record of one invocation and the destination tree it leaves.
\* result is Success, Diff or Error, or Err when an error was returned:
\* failure tells whether it was a configuration error (thread pool, ignore
\* pattern) or a mutation error; before and after are the destination tree
\* the run started from and the one it left, source_before and source_after
\* the same for the source tree; pool_taken tells whether the
\* global thread pool had been initialised before the call.
run_sync(cfg, create_order, delete_order, update_order, writable, removable, now, pool_taken) ==
    LET src == collect_files(cfg.source, cfg.ignore, cfg.symlinks)
        dst == collect_files(cfg.destination, cfg.ignore, cfg.symlinks)
        total_errors == src.errors + dst.errors
        source_map == src.files
        dest_map == dst.files
        actions == derive_actions(cfg, source_map, dest_map, create_order, delete_order,
                                  update_order)
        done == apply_actions([dest |-> destination, src |-> source, failed |-> FALSE,
                               applied |-> <<>>,
                               reported |-> <<>>, created_count |-> 0,
                               updated_count |-> 0, deleted_count |-> 0],
                              actions, cfg.dry_run, writable, removable, now)
    IN  IF IsSome(cfg.threads) /\ ~build_global(cfg.threads, pool_taken)
        THEN [dest |-> destination, source |-> source,
              run |-> aborted_run(destination, pool_taken)]
        ELSE IF src.err \/ dst.err
        THEN [dest |-> destination, source |-> source,
              run |-> aborted_run(destination, pool_taken)]
        ELSE
        [dest |-> done.dest,
         source |-> done.src,
         run |-> [before |-> destination,
                  after |-> done.dest,
                  source_before |-> source,
                  source_after |-> done.src,
                  actions |-> actions,
                  applied |-> done.applied,
                  reported |-> done.reported,
                  hashed |-> hashed_paths(source_map, dest_map, cfg.algo),
                  created_count |-> done.created_count,
                  updated_count |-> done.updated_count,
                  deleted_count |-> done.deleted_count,
                  errors |-> total_errors,
                  result |-> IF done.failed THEN "Err"
                             ELSE IF total_errors > 0 THEN "Error"
                             ELSE IF done.created_count > 0 \/ done.updated_count > 0
                                        \/ done.deleted_count > 0 THEN "Diff"
                             ELSE "Success",
                  failure |-> IF done.failed THEN "mutation" ELSE "none",
                  pool_taken |-> pool_taken]]

\* The command line of the sync subcommand declares delete_extraneous and
\* no_delete as conflicting arguments: the parse is rejected when both are
\* given and run_sync is not called.
sync_args_conflict(cfg) == cfg.delete_extraneous /\ cfg.no_delete

----------------------------------------------------------------------------
(* snapshot.rs *)

SnapshotEntry(rel_path, size, modified, hashes, symlink_target) ==
    [rel_path |-> rel_path, size |-> size, modified |-> modified, hashes |-> hashes,
     symlink_target |-> symlink_target]

Snapshot(created_at, root_path, files, algo) ==
    [created_at |-> created_at, root_path |-> root_path, files |-> files, algo |-> algo]

SnapshotConfig(algo, symlinks, ignore, threads) ==
    [folder |-> "folder", algo |-> algo, symlinks |-> symlinks, ignore |-> ignore,
     threads |-> threads]

\* JSON values: <<"null">>, <<"string", s>>, <<"number", n>>, <<"array", seq>>
\* and <<"object", fields>>.
JsonNull == <<"null">>

JsonOption(o, tag) == IF IsSome(o) THEN <<tag, Unwrap(o)>> ELSE JsonNull

FromJsonOption(j) == IF j[1] = "null" THEN None ELSE Some(j[2])

\* serde(rename_all = "snake_case") on HashAlgo.
algo_to_json(algo) ==
    CASE algo = "Sha256" -> <<"string", "sha256">>
      [] algo = "Blake3" -> <<"string", "blake3">>
      [] algo = "Both" -> <<"string", "both">>

algo_from_json(j) ==
    CASE j[2] = "sha256" -> "Sha256"
      [] j[2] = "blake3" -> "Blake3"
      [] j[2] = "both" -> "Both"

\* Serialize for SnapshotEntry: SystemTime as seconds and nanoseconds since
\* the epoch, an absent Option as null.
entry_to_json(e) ==
    <<"object",
      [rel_path |-> <<"string", e.rel_path>>,
       size |-> <<"number", e.size>>,
       modified |-> IF IsSome(e.modified)
                    THEN <<"object", [secs_since_epoch |-> Unwrap(e.modified),
                                     nanos_since_epoch |-> 0]>>
                    ELSE JsonNull,
       hashes |-> <<"object", [sha256 |-> JsonOption(e.hashes.sha256, "string"),
                               blake3 |-> JsonOption(e.hashes.blake3, "string")]>>,
       symlink_target |-> JsonOption(e.symlink_target, "string")]>>

\* Deserialize for SnapshotEntry.
entry_from_json(j) ==
    LET o == j[2]
    IN  SnapshotEntry(o.rel_path[2], o.size[2],
                      IF o.modified[1] = "null" THEN None
                      ELSE Some(o.modified[2].secs_since_epoch),
                      HashResult(FromJsonOption(o.hashes[2].sha256),
                                 FromJsonOption(o.hashes[2].blake3)),
                      FromJsonOption(o.symlink_target))

\* serde_json::to_string_pretty(&snapshot).
snapshot_to_json(snapshot) ==
    <<"object",
      [created_at |-> <<"string", snapshot.created_at>>,
       root_path |-> <<"string", snapshot.root_path>>,
       files |-> <<"array", [i \in DOMAIN snapshot.files |->
                                entry_to_json(snapshot.files[i])]>>,
       algo |-> algo_to_json(snapshot.algo)]>>

\* serde_json::from_reader(snapshot_file).
snapshot_from_json(j) ==
    LET o == j[2]
    IN  Snapshot(o.created_at[2], o.root_path[2],
                 [i \in DOMAIN o.files[2] |-> entry_from_json(o.files[2][i])],
                 algo_from_json(o.algo))

\* compute_hashes(..).unwrap_or(HashResult { sha256: None, blake3: None }).
hashes_or_empty(path, algo) ==
    LET res == compute_hashes(path, algo)
    IN  IF IsSome(res) THEN Unwrap(res) ELSE HashResult(None, None)

\* create_snapshot: the JSON text written to the output; discovery is the
\* order in which the walk delivered the files.
create_snapshot(cfg, discovery, pool_taken, now) ==
    LET collected == collect_files(cfg.folder, cfg.ignore, cfg.symlinks)
        files == [i \in DOMAIN discovery |-> collected.files[discovery[i]]]
        entries == [i \in DOMAIN files |->
                       LET f == files[i]
                           h == hashes_or_empty(f.path, cfg.algo)
                       IN  SnapshotEntry(f.path.rel, f.size, f.modified, h,
                                         f.symlink_target)]
        snapshot == Snapshot(now, cfg.folder, entries, cfg.algo)
    IN  IF IsSome(cfg.threads) /\ ~build_global(cfg.threads, pool_taken)
        THEN [ok |-> FALSE, json |-> JsonNull]
        ELSE IF collected.err THEN [ok |-> FALSE, json |-> JsonNull]
        ELSE [ok |-> TRUE, json |-> snapshot_to_json(snapshot)]

\* Variant: the live hashes are compared under a fixed algorithm instead of
\* the one recorded in the snapshot.
snapshot_status_fixed_algo(h, stored, algo) ==
    IF h.blake3 = stored.blake3 THEN "MATCH" ELSE "DIFF"

\* The status of a path present in the snapshot and in the live tree.
snapshot_status(h, stored, algo) ==
    CASE algo = "Sha256" -> IF h.sha256 = stored.sha256 THEN "MATCH" ELSE "DIFF"
      [] algo = "Blake3" -> IF h.blake3 = stored.blake3 THEN "MATCH" ELSE "DIFF"
      [] algo = "Both" -> IF h.sha256 = stored.sha256 /\ h.blake3 = stored.blake3
                          THEN "MATCH" ELSE "DIFF"

VerifyConfig(threads) == [folder |-> "folder", threads |-> threads]

\* verify_snapshot of the folder against the JSON text of a snapshot;
\* key_order and extra_order are the iteration orders of the snapshot keys
\* and of the live map; pool_taken tells whether the global thread pool had
\* been initialised before the call.
verify_snapshot(cfg, json, key_order, extra_order, pool_taken) ==
    LET snapshot == snapshot_from_json(json)
        collected == collect_files(cfg.folder, None, "Compare")
        current_map == collected.files
        current_errors == collected.errors
        snapshot_map == [p \in {snapshot.files[i].rel_path : i \in DOMAIN snapshot.files} |->
                            (CHOOSE e \in Range(snapshot.files) : e.rel_path = p)]
        check(rel_path) ==
            LET snap_entry == snapshot_map[rel_path]
            IN  IF rel_path \in DOMAIN current_map
                THEN LET curr_entry == current_map[rel_path]
                         h == hashes_or_empty(curr_entry.path, snapshot.algo)
                     IN  ComparisonResult(rel_path,
                             snapshot_status(h, snap_entry.hashes, snapshot.algo),
                             Some(snap_entry.hashes), Some(h),
                             Some(snap_entry.size), Some(curr_entry.size),
                             None, None,
                             snap_entry.symlink_target, curr_entry.symlink_target)
                ELSE ComparisonResult(rel_path, "MISSING",
                         Some(snap_entry.hashes), None, Some(snap_entry.size), None,
                         None, None, snap_entry.symlink_target, None)
        checked == [i \in DOMAIN key_order |-> check(key_order[i])]
        extras == [i \in DOMAIN extra_order |->
                      ComparisonResult(extra_order[i], "EXTRA", None, None,
                          None, Some(current_map[extra_order[i]].size), None, None,
                          None, current_map[extra_order[i]].symlink_target)]
        results == SortByFile(checked \o extras)
        matches == Count(results, LAMBDA r : r.status = "MATCH")
        diffs == Count(results, LAMBDA r : r.status = "DIFF")
        missing == Count(results, LAMBDA r : r.status = "MISSING")
        extra == Count(results, LAMBDA r : r.status = "EXTRA")
    IN  IF IsSome(cfg.threads) /\ ~build_global(cfg.threads, pool_taken)
        THEN [ok |-> FALSE,
              results |-> <<>>,
              summary |-> SummaryData(0, 0, 0, 0, 0, 0),
              exit |-> "Err"]
        ELSE
        [ok |-> TRUE,
         algo |-> snapshot.algo,
         snapshot |-> snapshot,
         results |-> results,
         summary |-> SummaryData(Len(results), matches, diffs, missing, extra,
                                 current_errors),
         exit |-> IF current_errors > 0 THEN "Error"
                  ELSE IF diffs > 0 \/ missing > 0 \/ extra > 0 THEN "Diff"
                  ELSE "Success"]

\* The snapshot variables when no snapshot operation is explored.
NoSnapshot ==
    /\ folder = EmptyTree
    /\ snapshot_config = SnapshotConfig("Both", "Ignore", None, None)
    /\ snapshot_file = None
    /\ captured = None
    /\ verified = None

\* The collector variables when no walk is explored.
NoWalk ==
    /\ dir = EmptyTree
    /\ collect_args = CollectArgs(FALSE, None, None, "Ignore")
    /\ pending = {}
    /\ walkers = [t \in {0} |-> "exited"]
    /\ tx = <<>>
    /\ tx_err = <<>>
    /\ sent = [files |-> <<>>, errors |-> <<>>]
    /\ consumer = [pc |-> "returned", final_files |-> <<>>, final_errors |-> <<>>]

\* The process variables when single invocations are explored.
NoProcess ==
    /\ global_pool = "unset"
    /\ calls = <<>>

----------------------------------------------------------------------------
(* The comparison runs as a state machine *)

Roots == {"folder1", "folder2", "source", "destination", "folder", "dir"}

NoWalkErrors == [r \in Roots |-> 0]

\* Two quiescent trees that differ from trees of default files in at most
\* MaxVaried places (objects and walk errors), any algorithm, symlink policy
\* and sort flag; nothing has run yet.
Init ==
    /\ folder1 \in Trees(Objects)
    /\ folder2 \in Trees(Objects)
    /\ \E e1, e2 \in 0..MaxWalkErrors :
          /\ Varied(folder1) + Varied(folder2) + e1 + e2 <= MaxVaried
          /\ walk_errors = [NoWalkErrors EXCEPT !["folder1"] = e1, !["folder2"] = e2]
    /\ config \in [algo : HashAlgo, symlinks : SymlinkMode, no_sort : BOOLEAN]
    /\ realtime = None
    /\ batch = None
    /\ source = EmptyTree
    /\ destination = EmptyTree
    /\ sync_config = SyncConfig("Both", "Ignore", FALSE, FALSE, FALSE, None, None)
    /\ sync_runs = <<>>
    /\ NoSnapshot
    /\ NoWalk
    /\ NoProcess

\* run_compare with Mode::Realtime.
RunRealtime ==
    /\ realtime = None
    /\ LET cfg == CompareConfig("folder1", "folder2", "Realtime", config.algo,
                                config.symlinks, config.no_sort)
           set1 == DOMAIN collect_files(cfg.folder1, cfg.ignore, cfg.symlinks).files
           set2 == DOMAIN collect_files(cfg.folder2, cfg.ignore, cfg.symlinks).files
       IN  \E discovery1 \in Orderings(set1), extra_order \in Orderings(set2 \ set1) :
               realtime' = Some(run_realtime(cfg, discovery1, extra_order))
    /\ UNCHANGED <<folder1, folder2, walk_errors, config, batch, sync_vars, snapshot_vars,
                   walk_vars, process_vars>>

\* run_compare with Mode::Batch or Mode::Metadata.
RunBatch ==
    /\ batch = None
    /\ \E mode \in {"Batch", "Metadata"} :
          LET cfg == CompareConfig("folder1", "folder2", mode, config.algo,
                                   config.symlinks, config.no_sort)
              set1_paths == DOMAIN collect_files(cfg.folder1, cfg.ignore, cfg.symlinks).files
              set2_paths == DOMAIN collect_files(cfg.folder2, cfg.ignore, cfg.symlinks).files
          IN  \E common_order \in Orderings(set1_paths \cap set2_paths),
                 missing_order \in Orderings(set1_paths \ set2_paths),
                 extra_order \in Orderings(set2_paths \ set1_paths) :
                  batch' = Some(run_batch(cfg, common_order, missing_order, extra_order))
    /\ UNCHANGED <<folder1, folder2, walk_errors, config, realtime, sync_vars,
                   snapshot_vars, walk_vars, process_vars>>

Next == RunRealtime \/ RunBatch

Spec == Init /\ [][Next]_vars

----------------------------------------------------------------------------
(* The synchronisation runs as a state machine *)

SyncObjects == RegularFiles \cup UnreadableFiles

\* The optional settings of the configurations explored: none, or one of
\* no_delete, an ignore pattern, an explicit thread count.
SyncSettings ==
    {[no_delete |-> nd, ignore |-> None, threads |-> None] : nd \in BOOLEAN}
        \cup {[no_delete |-> FALSE, ignore |-> Some(<<p>>), threads |-> None] :
                 p \in GlobPatterns}
        \cup {[no_delete |-> FALSE, ignore |-> None, threads |-> Some(2)]}

\* A source and a destination tree of regular files that differ from trees
\* of default files in at most MaxVaried places, any algorithm, deletion
\* policy, dry-run flag and optional settings; no sync has run yet.
SyncInit ==
    /\ source \in Trees(SyncObjects)
    /\ destination \in Trees(SyncObjects)
    /\ \E e1, e2 \in 0..MaxWalkErrors :
          /\ Varied(source) + Varied(destination) + e1 + e2 <= MaxVaried
          /\ walk_errors = [NoWalkErrors EXCEPT !["source"] = e1, !["destination"] = e2]
    /\ sync_config \in {SyncConfig(a, "Ignore", d, o.no_delete, n, o.ignore, o.threads) :
                           a \in HashAlgo, d \in BOOLEAN, n \in BOOLEAN,
                           o \in SyncSettings}
    /\ sync_runs = <<>>
    /\ folder1 = EmptyTree
    /\ folder2 = EmptyTree
    /\ config = [algo |-> "Both", symlinks |-> "Ignore", no_sort |-> FALSE]
    /\ realtime = None
    /\ batch = None
    /\ NoSnapshot
    /\ NoWalk
    /\ NoProcess

\* The outcomes of an environment condition: both when the run can depend
\* on it, only the favourable one when it cannot.
Outcomes(relevant) == IF relevant THEN BOOLEAN ELSE {TRUE}

\* One invocation of the sync subcommand with the configuration of this
\* state: the argument check, then run_sync; further invocations follow with
\* no external change to either tree.
RunSync ==
    /\ Len(sync_runs) < MaxRuns
    /\ (sync_runs # <<>> => sync_runs[Len(sync_runs)].result # "Err")
    /\ LET src == collect_files(sync_config.source, sync_config.ignore,
                                sync_config.symlinks)
           dst == collect_files(sync_config.destination, sync_config.ignore,
                                sync_config.symlinks)
           source_map == src.files
           dest_map == dst.files
           source_paths == DOMAIN source_map
           dest_paths == DOMAIN dest_map
           to_update == {p \in source_paths \cap dest_paths :
                            needs_update(source_map[p], dest_map[p], sync_config.algo)}
       IN  IF sync_args_conflict(sync_config)
           THEN /\ destination' = destination
                /\ source' = source
                /\ sync_runs' = Append(sync_runs, aborted_run(destination, FALSE))
           ELSE \E create_order \in Orderings(source_paths \ dest_paths),
                   delete_order \in Orderings(delete_candidates(source_paths, dest_paths,
                                                  sync_config.delete_extraneous)),
                   update_order \in Orderings(to_update),
                   writable \in Outcomes(~sync_config.dry_run /\ to_update # {}),
                   removable \in Outcomes(~sync_config.dry_run
                                             /\ sync_config.delete_extraneous
                                             /\ dest_paths \ source_paths # {}),
                   now \in IF sync_config.dry_run THEN {1} ELSE Times,
                   pool_taken \in {FALSE} \cup {IsSome(sync_config.threads)} :
                    LET r == run_sync(sync_config, create_order, delete_order,
                                      update_order, writable, removable, now, pool_taken)
                    IN  /\ destination' = r.dest
                        /\ source' = r.source
                        /\ sync_runs' = Append(sync_runs, r.run)
    /\ UNCHANGED <<sync_config, walk_errors, compare_vars, snapshot_vars, walk_vars,
                   process_vars>>

SyncNext == RunSync

SyncSpec == SyncInit /\ [][SyncNext]_vars

----------------------------------------------------------------------------
(* Snapshot creation and verification as a state machine *)

\* The objects of a snapshotted folder: an unreadable file can hold either
\* byte.
SnapshotObjects ==
    Objects \cup {[kind |-> "file", data |-> <<2>>, modified |-> 1, readable |-> FALSE,
                   raw |-> <<>>]}

\* A folder that differs from a tree of default files in at most MaxVaried
\* places, any algorithm and symlink policy; no snapshot exists yet.
SnapshotInit ==
    /\ folder \in Trees(SnapshotObjects)
    /\ \E e \in 0..MaxWalkErrors :
          /\ Varied(folder) + e <= MaxVaried
          /\ walk_errors = [NoWalkErrors EXCEPT !["folder"] = e]
    /\ snapshot_config \in {SnapshotConfig(a, sm, None, None) :
                               a \in HashAlgo, sm \in SymlinkMode}
    /\ snapshot_file = None
    /\ captured = None
    /\ verified = None
    /\ folder1 = EmptyTree
    /\ folder2 = EmptyTree
    /\ config = [algo |-> "Both", symlinks |-> "Ignore", no_sort |-> FALSE]
    /\ realtime = None
    /\ batch = None
    /\ source = EmptyTree
    /\ destination = EmptyTree
    /\ sync_config = SyncConfig("Both", "Ignore", FALSE, FALSE, FALSE, None, None)
    /\ sync_runs = <<>>
    /\ NoWalk
    /\ NoProcess

\* create_snapshot with an output file outside the folder; captured keeps
\* the tree the snapshot was taken of.
CreateSnapshot ==
    /\ snapshot_file = None
    /\ LET paths == DOMAIN collect_files(snapshot_config.folder, snapshot_config.ignore,
                                         snapshot_config.symlinks).files
       IN  \E discovery \in Orderings(paths), now \in Times :
               LET r == create_snapshot(snapshot_config, discovery, FALSE, now)
               IN  /\ r.ok
                   /\ snapshot_file' = Some(r.json)
    /\ captured' = Some(folder)
    /\ UNCHANGED <<folder, snapshot_config, verified, walk_errors, compare_vars, sync_vars,
                   walk_vars, process_vars>>

\* One change to the folder by its owner between creation and verification:
\* a file is removed, added or replaced.
ModifyFolder ==
    /\ snapshot_file # None
    /\ verified = None
    /\ folder = Unwrap(captured)
    /\ \E p \in Paths :
          \/ /\ p \in DOMAIN folder
             /\ folder' = Remove(folder, p)
          \/ \E obj \in SnapshotObjects :
                /\ Lookup(folder, p) # Some(obj)
                /\ folder' = Store(folder, p, obj)
    /\ UNCHANGED <<snapshot_config, snapshot_file, captured, verified, walk_errors,
                   compare_vars, sync_vars, walk_vars, process_vars>>

\* verify_snapshot of the folder against the snapshot file.
VerifySnapshot ==
    /\ snapshot_file # None
    /\ verified = None
    /\ LET stored == {e.rel_path :
                         e \in Range(snapshot_from_json(Unwrap(snapshot_file)).files)}
           live == DOMAIN collect_files("folder", None, "Compare").files
       IN  \E key_order \in Orderings(stored), extra_order \in Orderings(live \ stored) :
               verified' = Some(verify_snapshot(VerifyConfig(None),
                                                Unwrap(snapshot_file),
                                                key_order, extra_order, FALSE))
    /\ UNCHANGED <<folder, snapshot_config, snapshot_file, captured, walk_errors,
                   compare_vars, sync_vars, walk_vars, process_vars>>

SnapshotNext == CreateSnapshot \/ ModifyFolder \/ VerifySnapshot

SnapshotSpec == SnapshotInit /\ [][SnapshotNext]_vars

----------------------------------------------------------------------------
(* collect_files as walker threads, two channels and a consumer *)

Directory ==
    [kind |-> "dir", data |-> <<>>, modified |-> 1, readable |-> TRUE, raw |-> <<>>]

Symlink ==
    [kind |-> "symlink", data |-> <<1>>, modified |-> 1, readable |-> TRUE, raw |-> <<97>>]

\* The object a path of the walked directory can hold.
WalkObjects(rel) ==
    CASE rel = 1 -> {DefaultFile, Symlink}
      [] rel = 3 -> {DefaultFile, Directory}
      [] OTHER -> {DefaultFile}

\* The walked directories: at most MaxEntries entries, "d.tmp/c.TXT" only
\* below the directory "d.tmp".
WalkTrees ==
    {t \in UNION {[S -> {DefaultFile, Symlink, Directory}] :
                     S \in {T \in SUBSET WalkPaths : Cardinality(T) <= MaxEntries}} :
        /\ \A q \in DOMAIN t : t[q] \in WalkObjects(q)
        /\ 4 \in DOMAIN t => (3 \in DOMAIN t /\ t[3] = Directory)}

\* collect_files has built the ignore set and the type filter (the patterns
\* are valid), created the two channels and spawned the walk: the walker
\* holds the entries of the root and the errors of the walk, the thread that
\* runs walker.run (0) and the walker threads hold the senders, the consumer
\* starts to drain the file channel.
WalkInit ==
    /\ dir \in WalkTrees
    /\ \E e \in 0..MaxWalkErrors :
          /\ walk_errors = [NoWalkErrors EXCEPT !["dir"] = e]
          /\ \E args \in {CollectArgs(h, t, g, sm) :
                              h \in BOOLEAN, t \in {None, Some(<<".TXT">>)},
                              g \in {None, Some(<<"*.tmp">>)}, sm \in SymlinkMode} :
                /\ collect_args = args
                /\ pending = read_dir(dir, 0, args.hidden) \cup {WalkErr(k) : k \in 1..e}
    /\ walkers \in {[t \in 0..n |-> "running"] : n \in 1..MaxWalkers}
    /\ tx = <<>>
    /\ tx_err = <<>>
    /\ sent = [files |-> <<>>, errors |-> <<>>]
    /\ consumer = [pc |-> "files", final_files |-> <<>>, final_errors |-> <<>>]
    /\ folder1 = EmptyTree
    /\ folder2 = EmptyTree
    /\ config = [algo |-> "Both", symlinks |-> "Ignore", no_sort |-> FALSE]
    /\ realtime = None
    /\ batch = None
    /\ source = EmptyTree
    /\ destination = EmptyTree
    /\ sync_config = SyncConfig("Both", "Ignore", FALSE, FALSE, FALSE, None, None)
    /\ sync_runs = <<>>
    /\ NoSnapshot
    /\ NoProcess

\* Some sender of the two channels has not been dropped yet.
SendersAlive == \E t \in DOMAIN walkers : walkers[t] = "running"

\* A walker thread takes a walk result and calls its closure on it: the
\* closure sends on tx or on tx_err or on neither and returns Continue, and
\* the walker goes on to the entries of a directory.
Visit(t) ==
    /\ t # 0
    /\ walkers[t] = "running"
    /\ \E result \in pending :
          LET out == closure_call(result, collect_args)
              sends_file == DOMAIN out.files # {}
              sends_err == out.errors > 0
              below == IF result.ok /\ dir[result.rel].kind = "dir"
                       THEN read_dir(dir, result.rel, collect_args.hidden) ELSE {}
          IN  /\ sends_file => send_ready(tx, consumer.pc = "files")
              /\ sends_err => send_ready(tx_err, consumer.pc = "errors")
              /\ tx' = IF sends_file THEN Append(tx, out.files[result.rel]) ELSE tx
              /\ tx_err' = IF sends_err THEN Append(tx_err, ErrorEntry("?", "walk error"))
                           ELSE tx_err
              /\ sent' = [files |-> IF sends_file
                                    THEN Append(sent.files, out.files[result.rel])
                                    ELSE sent.files,
                          errors |-> IF sends_err
                                     THEN Append(sent.errors, ErrorEntry("?", "walk error"))
                                     ELSE sent.errors]
              /\ pending' = IF out.quit THEN {} ELSE (pending \ {result}) \cup below
    /\ UNCHANGED <<dir, collect_args, walkers, consumer, walk_errors, compare_vars,
                   sync_vars, snapshot_vars, process_vars>>

\* A walker thread finds no work left and ends: its closure, and with it its
\* clones of the two senders, is dropped.
WalkerExit(t) ==
    /\ t # 0
    /\ walkers[t] = "running"
    /\ pending = {}
    /\ walkers' = [walkers EXCEPT ![t] = "exited"]
    /\ UNCHANGED <<dir, collect_args, pending, tx, tx_err, sent, consumer, walk_errors,
                   compare_vars, sync_vars, snapshot_vars, process_vars>>

\* walker.run returns when its threads have ended, and the spawned thread
\* ends: the original senders are dropped.
RunReturns ==
    /\ walkers[0] = "running"
    /\ \A t \in DOMAIN walkers \ {0} : walkers[t] = "exited"
    /\ walkers' = [walkers EXCEPT ![0] = "exited"]
    /\ UNCHANGED <<dir, collect_args, pending, tx, tx_err, sent, consumer, walk_errors,
                   compare_vars, sync_vars, snapshot_vars, process_vars>>

\* rx.into_iter().collect(): the consumer takes the next FileEntry.
RecvFile ==
    /\ consumer.pc = "files"
    /\ tx # <<>>
    /\ consumer' = [consumer EXCEPT !.final_files = Append(@, Head(tx))]
    /\ tx' = Tail(tx)
    /\ UNCHANGED <<dir, collect_args, pending, walkers, tx_err, sent, walk_errors,
                   compare_vars, sync_vars, snapshot_vars, process_vars>>

\* The file channel is empty and every sender is gone: the iteration over rx
\* ends and the consumer turns to rx_err.
FilesClosed ==
    /\ consumer.pc = "files"
    /\ tx = <<>>
    /\ ~SendersAlive
    /\ consumer' = [consumer EXCEPT !.pc = "errors"]
    /\ UNCHANGED <<dir, collect_args, pending, walkers, tx, tx_err, sent, walk_errors,
                   compare_vars, sync_vars, snapshot_vars, process_vars>>

\* rx_err.into_iter().collect(): the consumer takes the next ErrorEntry.
RecvError ==
    /\ consumer.pc = "errors"
    /\ tx_err # <<>>
    /\ consumer' = [consumer EXCEPT !.final_errors = Append(@, Head(tx_err))]
    /\ tx_err' = Tail(tx_err)
    /\ UNCHANGED <<dir, collect_args, pending, walkers, tx, sent, walk_errors,
                   compare_vars, sync_vars, snapshot_vars, process_vars>>

\* The error channel is empty and closed: collect_files returns
\* Ok((final_files, final_errors)).
CollectReturns ==
    /\ consumer.pc = "errors"
    /\ tx_err = <<>>
    /\ ~SendersAlive
    /\ consumer' = [consumer EXCEPT !.pc = "returned"]
    /\ UNCHANGED <<dir, collect_args, pending, walkers, tx, tx_err, sent, walk_errors,
                   compare_vars, sync_vars, snapshot_vars, process_vars>>

WalkNext ==
    \/ \E t \in DOMAIN walkers : Visit(t) \/ WalkerExit(t)
    \/ RunReturns
    \/ RecvFile
    \/ FilesClosed
    \/ RecvError
    \/ CollectReturns

WalkSpec == WalkInit /\ [][WalkNext]_vars

\* The threads are scheduled: a step that stays possible is taken.
WalkFairSpec == WalkSpec /\ WF_vars(WalkNext)

----------------------------------------------------------------------------
(* Several calls of the entry points in one process *)

ThreadCounts == {None} \cup {Some(n) : n \in 1..2}

OneFile == [p \in {1} |-> DefaultFile]

\* What a call left behind that its caller can observe: whether it returned
\* Ok, the walk errors it reported (every walk of this process meets one),
\* and the destination tree and the snapshot file after it.
Outcome(ok, errors, dest, file) ==
    [ok |-> ok, errors |-> errors, destination |-> dest, snapshot_file |-> file]

\* The entry of the call log: outcome is what the call did, in_fresh_process
\* what the same call does when the pool has not been initialised.
Call(op, threads, pool, outcome, in_fresh_process) ==
    [op |-> op, threads |-> threads, pool_before |-> pool, outcome |-> outcome,
     in_fresh_process |-> in_fresh_process,
     destination_before |-> destination, snapshot_file_before |-> snapshot_file]

\* A process that has called nothing yet: two equal trees to compare, a
\* source with a file the destination lacks, a folder to snapshot; the walk
\* of every root reports one error.
ProcessInit ==
    /\ folder1 = OneFile
    /\ folder2 = OneFile
    /\ source = OneFile
    /\ destination = EmptyTree
    /\ folder = OneFile
    /\ walk_errors = [r \in Roots |-> IF r = "dir" THEN 0 ELSE 1]
    /\ config \in [algo : {"Both"}, symlinks : {"Ignore"}, no_sort : BOOLEAN]
    /\ realtime = None
    /\ batch = None
    /\ sync_config = SyncConfig("Both", "Ignore", FALSE, FALSE, FALSE, None, None)
    /\ sync_runs = <<>>
    /\ snapshot_config = SnapshotConfig("Both", "Ignore", None, None)
    /\ snapshot_file = None
    /\ captured = None
    /\ verified = None
    /\ NoWalk
    /\ NoProcess

\* The state after run_compare returned r; fresh is what the same call
\* returns in a process whose pool has not been initialised.
CompareReturned(threads, mode, r, fresh) ==
    LET errors(x) == IF x.ok THEN Unwrap(x.report).summary.errors ELSE 0
        used_rayon ==
            /\ r.ok
            /\ \/ mode = "Batch"
               \/ \E q \in DOMAIN Unwrap(r.report).hasher_calls :
                     Unwrap(r.report).hasher_calls[q] > 0
    IN  /\ realtime' = IF r.ok /\ mode = "Realtime" THEN r.report ELSE realtime
        /\ batch' = IF r.ok /\ mode = "Batch" THEN r.report ELSE batch
        /\ global_pool' = pool_after(global_pool, threads, used_rayon)
        /\ calls' = Append(calls,
               Call("run_compare", threads, global_pool,
                    Outcome(r.ok, errors(r), destination, snapshot_file),
                    Outcome(fresh.ok, errors(fresh), destination, snapshot_file)))

\* run_compare called with the given thread count.
CallCompare ==
    /\ Len(calls) < MaxCalls
    /\ \E threads \in ThreadCounts, mode \in {"Realtime", "Batch"} :
          LET cfg == CompareConfig("folder1", "folder2", mode, config.algo,
                                   config.symlinks, config.no_sort)
              set1 == DOMAIN collect_files(cfg.folder1, cfg.ignore, cfg.symlinks).files
              set2 == DOMAIN collect_files(cfg.folder2, cfg.ignore, cfg.symlinks).files
          IN  \E discovery1 \in Orderings(set1),
                 common_order \in Orderings(set1 \cap set2),
                 missing_order \in Orderings(set1 \ set2),
                 extra_order \in Orderings(set2 \ set1) :
                  CompareReturned(threads, mode,
                      run_compare(cfg, threads, global_pool # "unset", discovery1,
                                  common_order, missing_order, extra_order),
                      run_compare(cfg, threads, FALSE, discovery1,
                                  common_order, missing_order, extra_order))
    /\ UNCHANGED <<folder1, folder2, config, walk_errors, sync_vars, snapshot_vars,
                   walk_vars>>

\* The state after run_sync returned r.
SyncReturned(cfg, r, fresh) ==
    /\ sync_config' = cfg
    /\ destination' = r.dest
    /\ source' = r.source
    /\ sync_runs' = Append(sync_runs, r.run)
    /\ global_pool' = pool_after(global_pool, cfg.threads, r.run.failure # "config")
    /\ calls' = Append(calls,
           Call("run_sync", cfg.threads, global_pool,
                Outcome(r.run.result # "Err", r.run.errors, r.dest, snapshot_file),
                Outcome(fresh.run.result # "Err", fresh.run.errors, fresh.dest,
                        snapshot_file)))

\* run_sync called with the given thread count.
CallSync ==
    /\ Len(calls) < MaxCalls
    /\ \E threads \in ThreadCounts :
          LET cfg == [sync_config EXCEPT !.threads = threads]
              source_map == collect_files(cfg.source, cfg.ignore, cfg.symlinks).files
              dest_map == collect_files(cfg.destination, cfg.ignore, cfg.symlinks).files
              source_paths == DOMAIN source_map
              dest_paths == DOMAIN dest_map
              to_update == {q \in source_paths \cap dest_paths :
                               needs_update(source_map[q], dest_map[q], cfg.algo)}
          IN  \E create_order \in Orderings(source_paths \ dest_paths),
                 delete_order \in Orderings(delete_candidates(source_paths, dest_paths,
                                                cfg.delete_extraneous)),
                 update_order \in Orderings(to_update) :
                  SyncReturned(cfg,
                      run_sync(cfg, create_order, delete_order, update_order,
                               TRUE, TRUE, 1, global_pool # "unset"),
                      run_sync(cfg, create_order, delete_order, update_order,
                               TRUE, TRUE, 1, FALSE))
    /\ UNCHANGED <<walk_errors, compare_vars, snapshot_vars, walk_vars>>

\* The state after create_snapshot returned r.
SnapshotCreated(cfg, r, fresh) ==
    LET written(x) == IF x.ok THEN Some(x.json) ELSE snapshot_file
        errors(x) == IF x.ok THEN walk_errors[cfg.folder] ELSE 0
    IN  /\ snapshot_config' = cfg
        /\ snapshot_file' = written(r)
        /\ captured' = IF r.ok THEN Some(folder) ELSE captured
        /\ global_pool' = pool_after(global_pool, cfg.threads, r.ok)
        /\ calls' = Append(calls,
               Call("create_snapshot", cfg.threads, global_pool,
                    Outcome(r.ok, errors(r), destination, written(r)),
                    Outcome(fresh.ok, errors(fresh), destination, written(fresh))))

\* create_snapshot called with the given thread count, its output file
\* outside the folder.
CallCreateSnapshot ==
    /\ Len(calls) < MaxCalls
    /\ \E threads \in ThreadCounts :
          LET cfg == [snapshot_config EXCEPT !.threads = threads]
              paths == DOMAIN collect_files(cfg.folder, cfg.ignore, cfg.symlinks).files
          IN  \E discovery \in Orderings(paths) :
                  SnapshotCreated(cfg,
                      create_snapshot(cfg, discovery, global_pool # "unset", 1),
                      create_snapshot(cfg, discovery, FALSE, 1))
    /\ UNCHANGED <<folder, verified, walk_errors, compare_vars, sync_vars, walk_vars>>

\* The state after verify_snapshot returned r.
SnapshotVerified(cfg, r, fresh) ==
    /\ verified' = IF r.ok THEN Some(r) ELSE verified
    /\ global_pool' = pool_after(global_pool, cfg.threads, r.ok)
    /\ calls' = Append(calls,
           Call("verify_snapshot", cfg.threads, global_pool,
                Outcome(r.ok, r.summary.errors, destination, snapshot_file),
                Outcome(fresh.ok, fresh.summary.errors, destination, snapshot_file)))

\* verify_snapshot called with the given thread count on a snapshot file
\* that exists.
CallVerifySnapshot ==
    /\ Len(calls) < MaxCalls
    /\ snapshot_file # None
    /\ \E threads \in ThreadCounts :
          LET cfg == VerifyConfig(threads)
              stored == {e.rel_path :
                            e \in Range(snapshot_from_json(Unwrap(snapshot_file)).files)}
              live == DOMAIN collect_files(cfg.folder, None, "Compare").files
          IN  \E key_order \in Orderings(stored), extra_order \in Orderings(live \ stored) :
                  SnapshotVerified(cfg,
                      verify_snapshot(cfg, Unwrap(snapshot_file), key_order,
                                      extra_order, global_pool # "unset"),
                      verify_snapshot(cfg, Unwrap(snapshot_file), key_order,
                                      extra_order, FALSE))
    /\ UNCHANGED <<folder, snapshot_config, snapshot_file, captured, walk_errors,
                   compare_vars, sync_vars, walk_vars>>

ProcessNext == CallCompare \/ CallSync \/ CallCreateSnapshot \/ CallVerifySnapshot

ProcessSpec == ProcessInit /\ [][ProcessNext]_vars

----------------------------------------------------------------------------
(* Properties of the comparison runs *)

\* The inventories the runs of this state collect, keyed by relative path.
Inventory1 == collect_files("folder1", None, config.symlinks).files

Inventory2 == collect_files("folder2", None, config.symlinks).files

CommonPaths == DOMAIN Inventory1 \cap DOMAIN Inventory2

UnionPaths == DOMAIN Inventory1 \cup DOMAIN Inventory2

\* The runs completed so far.
Outputs == {Unwrap(o) : o \in {realtime, batch} \ {None}}

ResultsAt(out, p) == {r \in Range(out.results) : r.file = p}

StatusAt(out, p) == (CHOOSE r \in Range(out.results) : r.file = p).status

NumStatus(out, st) == Count(out.results, LAMBDA r : r.status = st)

HasStatus(out, st) == \E r \in Range(out.results) : r.status = st

\* C1: run_batch yields exactly one result per path of the union of the two
\* inventories and none for other paths; MISSING exactly for paths only in
\* side 1, EXTRA exactly for paths only in side 2, MATCH/DIFF/ERROR exactly
\* for common paths; the five status counts add up to the size of the union,
\* which is the reported total.
C1_BatchClassifiesUnion ==
    batch # None =>
        LET out == Unwrap(batch)
        IN  /\ \A p \in Paths :
                  Count(out.results, LAMBDA r : r.file = p)
                      = IF p \in UnionPaths THEN 1 ELSE 0
            /\ \A r \in Range(out.results) :
                  /\ r.status = "MISSING" <=> r.file \in DOMAIN Inventory1 \ DOMAIN Inventory2
                  /\ r.status = "EXTRA" <=> r.file \in DOMAIN Inventory2 \ DOMAIN Inventory1
                  /\ r.status \in {"MATCH", "DIFF", "ERROR"} <=> r.file \in CommonPaths
            /\ NumStatus(out, "MATCH") + NumStatus(out, "DIFF") + NumStatus(out, "MISSING")
                  + NumStatus(out, "EXTRA") + NumStatus(out, "ERROR")
                      = Cardinality(UnionPaths)
            /\ out.summary.total = Cardinality(UnionPaths)

\* A batch run over a union of two paths, one common path that could not be
\* hashed and one path only in side 2.
C1_Witness ==
    /\ batch # None
    /\ Unwrap(batch).summary.total = 2
    /\ HasStatus(Unwrap(batch), "ERROR")
    /\ HasStatus(Unwrap(batch), "EXTRA")

\* C2: on the same trees and configuration run_realtime and run_batch (mode
\* Batch) give every path the same status and report the same total,
\* matches, diffs, missing, extra and the same exit status.
C2_RealtimeEqualsBatch ==
    (realtime # None /\ batch # None /\ Unwrap(batch).mode = "Batch") =>
        LET rt == Unwrap(realtime)
            bt == Unwrap(batch)
        IN  /\ \A p \in Paths :
                  /\ {r.status : r \in ResultsAt(rt, p)} = {r.status : r \in ResultsAt(bt, p)}
                  /\ Count(rt.results, LAMBDA r : r.file = p)
                        = Count(bt.results, LAMBDA r : r.file = p)
            /\ rt.summary.total = bt.summary.total
            /\ rt.summary.matches = bt.summary.matches
            /\ rt.summary.diffs = bt.summary.diffs
            /\ rt.summary.missing = bt.summary.missing
            /\ rt.summary.extra = bt.summary.extra
            /\ rt.exit = bt.exit

\* Both runs done over a common path and a path only in side 2, delivered in
\* different orders.
C2_Witness ==
    /\ realtime # None
    /\ batch # None
    /\ Unwrap(batch).mode = "Batch"
    /\ Unwrap(realtime).results # Unwrap(batch).results
    /\ HasStatus(Unwrap(batch), "EXTRA")
    /\ HasStatus(Unwrap(batch), "DIFF")

\* The batch run of this state's configuration with the two folders exchanged.
SwappedBatch(mode) ==
    run_batch(CompareConfig("folder2", "folder1", mode, config.algo, config.symlinks,
                            config.no_sort),
              Ascending(CommonPaths),
              Ascending(DOMAIN Inventory2 \ DOMAIN Inventory1),
              Ascending(DOMAIN Inventory1 \ DOMAIN Inventory2))

SwapStatus(st) ==
    CASE st = "MISSING" -> "EXTRA"
      [] st = "EXTRA" -> "MISSING"
      [] OTHER -> st

\* C3: exchanging the two folders turns MISSING into EXTRA and EXTRA into
\* MISSING for the same path and keeps every MATCH and DIFF, with the
\* per-side fields hash1/hash2 and size1/size2 exchanged.
C3_SwapSymmetry ==
    batch # None =>
        LET out == Unwrap(batch)
            sw == SwappedBatch(out.mode)
        IN  /\ Len(sw.results) = Len(out.results)
            /\ \A r \in Range(out.results) :
                  \E q \in Range(sw.results) :
                      /\ q.file = r.file
                      /\ q.status = SwapStatus(r.status)
                      /\ q.hash1 = r.hash2 /\ q.hash2 = r.hash1
                      /\ q.size1 = r.size2 /\ q.size2 = r.size1

\* A batch run with a MISSING path and a DIFF decided by unequal digests.
C3_Witness ==
    /\ batch # None
    /\ HasStatus(Unwrap(batch), "MISSING")
    /\ \E r \in Range(Unwrap(batch).results) :
          r.status = "DIFF" /\ IsSome(r.hash1) /\ r.hash1 # r.hash2

\* Both entries of p carry the same symlink target string in Compare mode.
SameSymlinkTarget(p) ==
    /\ config.symlinks = "Compare"
    /\ IsSome(Inventory1[p].symlink_target)
    /\ Inventory1[p].symlink_target = Inventory2[p].symlink_target

\* C4 as stated: two entries of different sizes are always DIFF and are
\* never hashed.
C4_SizeMismatchAlwaysDiff ==
    \A out \in Outputs : \A p \in CommonPaths :
        Inventory1[p].size # Inventory2[p].size =>
            StatusAt(out, p) = "DIFF" /\ out.hasher_calls[p] = 0

\* C4 amended: two entries of different sizes are never hashed and are
\* DIFF, except that in symlink-compare mode two symlinks with equal target
\* strings are MATCH whatever their sizes.
C4_SizeMismatchNoHashing ==
    \A out \in Outputs : \A p \in CommonPaths :
        Inventory1[p].size # Inventory2[p].size =>
            /\ out.hasher_calls[p] = 0
            /\ StatusAt(out, p) = IF SameSymlinkTarget(p) THEN "MATCH" ELSE "DIFF"

\* A hashing-mode run over two regular files of different sizes.
C4_Witness ==
    \E out \in Outputs : \E p \in CommonPaths :
        /\ out.mode # "Metadata"
        /\ Inventory1[p].size # Inventory2[p].size
        /\ Inventory1[p].symlink_target = None
        /\ Inventory2[p].symlink_target = None
        /\ StatusAt(out, p) = "DIFF"

ActiveSlots(algo) ==
    CASE algo = "Sha256" -> {"sha256"}
      [] algo = "Blake3" -> {"blake3"}
      [] algo = "Both" -> {"sha256", "blake3"}

\* C5: when compare_files_core reaches the hashing step the result is MATCH
\* iff both hash computations succeeded and every active digest slot is
\* equal, DIFF iff both succeeded and some active slot differs, and ERROR
\* iff a computation failed.
C5_HashingStepStatus ==
    \A out \in Outputs : \A p \in CommonPaths :
        out.hasher_calls[p] > 0 =>
            LET h1 == compute_hashes(Inventory1[p].path, config.algo)
                h2 == compute_hashes(Inventory2[p].path, config.algo)
                ok == IsSome(h1) /\ IsSome(h2)
                equal == \A slot \in ActiveSlots(config.algo) :
                             Unwrap(h1)[slot] = Unwrap(h2)[slot]
            IN  /\ StatusAt(out, p) = "MATCH" <=> (ok /\ equal)
                /\ StatusAt(out, p) = "DIFF" <=> (ok /\ ~equal)
                /\ StatusAt(out, p) = "ERROR" <=> ~ok

\* A run in which the hashing step failed on one side only.
C5_Witness ==
    \E out \in Outputs : \E p \in CommonPaths :
        /\ out.hasher_calls[p] > 0
        /\ StatusAt(out, p) = "ERROR"
        /\ IsSome(compute_hashes(Inventory1[p].path, config.algo))

\* C6: after a run in which a common path was classified ERROR the reported
\* errors count is at least 1 and the exit status is Error.
C6_HashErrorCounted ==
    \A out \in Outputs :
        HasStatus(out, "ERROR") => (out.summary.errors >= 1 /\ out.exit = "Error")

\* C7: the exit status is Success iff the error count is zero and there is
\* no DIFF, MISSING or EXTRA result, Diff iff the error count is zero and
\* there is one, and Error iff the error count is positive.
C7_ExitStatus ==
    \A out \in Outputs :
        LET differs == HasStatus(out, "DIFF") \/ HasStatus(out, "MISSING")
                          \/ HasStatus(out, "EXTRA")
        IN  /\ out.exit \in ExitStatus
            /\ out.exit = "Success" <=> (out.summary.errors = 0 /\ ~differs)
            /\ out.exit = "Diff" <=> (out.summary.errors = 0 /\ differs)
            /\ out.exit = "Error" <=> out.summary.errors > 0

\* A run with a walk error and a DIFF result: Error takes precedence.
C7_Witness ==
    \E out \in Outputs :
        out.summary.errors > 0 /\ HasStatus(out, "DIFF") /\ out.exit = "Error"

\* The entries of a root that pass the symlink policy.
Includable(root) ==
    {p \in DOMAIN TreeAt(root) : should_include(TreeAt(root)[p], config.symlinks)}

ResultAt(out, p) == CHOOSE r \in Range(out.results) : r.file = p

\* A side of the common path p carries a symlink target (Compare mode).
SymlinkDecided(p) ==
    /\ config.symlinks = "Compare"
    /\ (IsSome(Inventory1[p].symlink_target) \/ IsSome(Inventory2[p].symlink_target))

\* C23: in symlink-compare mode a common path with a symlink target on a
\* side is decided by the targets alone, whatever the sizes, the timestamps
\* and the bytes: MATCH iff both sides are symlinks with equal target
\* strings, DIFF otherwise (unequal strings, or one side only); the hasher
\* is not invoked and the result carries no hash and no size.
C23_SymlinkCompareDecides ==
    \A out \in Outputs : \A p \in CommonPaths :
        SymlinkDecided(p) =>
            LET s1 == Inventory1[p].symlink_target
                s2 == Inventory2[p].symlink_target
                r == ResultAt(out, p)
            IN  /\ out.hasher_calls[p] = 0
                /\ r.status = IF IsSome(s1) /\ IsSome(s2) /\ s1 = s2 THEN "MATCH" ELSE "DIFF"
                /\ r.hash1 = None /\ r.hash2 = None
                /\ r.size1 = None /\ r.size2 = None
                /\ r.symlink1 = s1 /\ r.symlink2 = s2

\* A run over two symlinks of different sizes whose target strings are
\* equal: MATCH.
C23_Witness ==
    \E out \in Outputs : \E p \in CommonPaths :
        /\ SymlinkDecided(p)
        /\ Inventory1[p].size # Inventory2[p].size
        /\ ResultAt(out, p).status = "MATCH"

\* C24 as stated: in Metadata mode nothing is hashed, a common path with
\* equal sizes is MATCH iff the two modification times are equal and DIFF
\* otherwise, and no result is ERROR or carries a hash.
C24_MetadataByTimestamps ==
    \A out \in Outputs :
        out.mode = "Metadata" =>
            /\ \A p \in CommonPaths :
                  /\ out.hasher_calls[p] = 0
                  /\ Inventory1[p].size = Inventory2[p].size =>
                        ResultAt(out, p).status
                            = IF Inventory1[p].modified = Inventory2[p].modified
                              THEN "MATCH" ELSE "DIFF"
            /\ \A r \in Range(out.results) :
                  r.status # "ERROR" /\ r.hash1 = None /\ r.hash2 = None

\* C24 amended: in Metadata mode nothing is hashed and no result is ERROR
\* or carries a hash; a common path with equal sizes is MATCH iff the two
\* modification times are equal and DIFF otherwise, unless in
\* symlink-compare mode a side carries a symlink target: such a path is
\* decided by the targets, whatever the sizes and times.
C24_MetadataNeverHashes ==
    \A out \in Outputs :
        out.mode = "Metadata" =>
            /\ \A p \in CommonPaths :
                  /\ out.hasher_calls[p] = 0
                  /\ (Inventory1[p].size = Inventory2[p].size /\ ~SymlinkDecided(p)) =>
                        ResultAt(out, p).status
                            = IF Inventory1[p].modified = Inventory2[p].modified
                              THEN "MATCH" ELSE "DIFF"
                  /\ SymlinkDecided(p) =>
                        ResultAt(out, p).status
                            = IF Inventory1[p].symlink_target = Inventory2[p].symlink_target
                              THEN "MATCH" ELSE "DIFF"
            /\ \A r \in Range(out.results) :
                  r.status # "ERROR" /\ r.hash1 = None /\ r.hash2 = None

\* A Metadata run over two files of equal size, one of them unreadable,
\* with different modification times: DIFF, not ERROR.
C24_Witness ==
    /\ batch # None
    /\ Unwrap(batch).mode = "Metadata"
    /\ \E p \in CommonPaths :
          /\ ~folder1[p].readable
          /\ ~SymlinkDecided(p)
          /\ Inventory1[p].size = Inventory2[p].size
          /\ Inventory1[p].modified # Inventory2[p].modified
          /\ ResultAt(Unwrap(batch), p).status = "DIFF"

----------------------------------------------------------------------------
(* Properties of the synchronisation runs *)

\* The relative paths collect_files returns for a tree under the sync
\* configuration.
Collected(tree) ==
    {p \in DOMAIN tree :
        /\ should_include(tree[p], sync_config.symlinks)
        /\ ~glob_is_match(custom_ignore_set(sync_config.ignore).set, p)}

ActionPaths(run, st) == {a.file : a \in {b \in Range(run.actions) : b.status = st}}

\* The size and modification time of the two sides of p agree.
SameSizeAndTime(before, p) ==
    /\ Len(source[p].data) = Len(before[p].data)
    /\ source[p].modified = before[p].modified

\* The content judgement of run_sync for a common path, stated on the
\* objects: not skipped by the Both short-circuit, and unreadable on a side
\* or different bytes.
JudgedDifferent(before, p) ==
    /\ ~(sync_config.algo = "Both" /\ SameSizeAndTime(before, p))
    /\ (~source[p].readable \/ ~before[p].readable \/ source[p].data # before[p].data)

\* The runs that got past the configuration steps and derived their actions.
DerivingRuns == {i \in DOMAIN sync_runs : sync_runs[i].failure # "config"}

\* C8: run_sync derives CREATE exactly for the paths only in the source,
\* DELETE exactly for the paths only in the destination when
\* delete_extraneous is set and for none otherwise, UPDATE exactly for the
\* common paths judged content-different, and at most one action per path.
C8_SyncActionDerivation ==
    \A i \in DerivingRuns :
        LET run == sync_runs[i]
            source_paths == Collected(source)
            dest_paths == Collected(run.before)
        IN  /\ ActionPaths(run, "CREATE") = source_paths \ dest_paths
            /\ ActionPaths(run, "DELETE")
                  = IF sync_config.delete_extraneous THEN dest_paths \ source_paths ELSE {}
            /\ ActionPaths(run, "UPDATE")
                  = {p \in source_paths \cap dest_paths : JudgedDifferent(run.before, p)}
            /\ \A a \in Range(run.actions) : a.status \in {"CREATE", "UPDATE", "DELETE"}
            /\ \A p \in Paths : Count(run.actions, LAMBDA a : a.file = p) <= 1

\* A run that derived an UPDATE and a DELETE.
C8_Witness ==
    \E i \in DerivingRuns :
        /\ ActionPaths(sync_runs[i], "UPDATE") # {}
        /\ ActionPaths(sync_runs[i], "DELETE") # {}

\* The runs C9 is about: not dry-run, delete_extraneous set, completed
\* without walk or mutation errors.
MirrorRuns ==
    {i \in DOMAIN sync_runs :
        /\ ~sync_config.dry_run
        /\ sync_config.delete_extraneous
        /\ sync_runs[i].result \in {"Success", "Diff"}}

\* C9 as stated: after such a run the destination's collected file set
\* equals the source's and every destination file has the bytes of the
\* source file at the same path, for every algorithm selection.
C9_SyncMirrorsSource ==
    \A i \in MirrorRuns :
        LET after == sync_runs[i].after
        IN  /\ Collected(after) = Collected(source)
            /\ \A p \in Collected(after) : after[p].data = source[p].data

\* C9 amended: the file sets are equal and every destination file has the
\* bytes of the source file, except, under Both, a common path whose size and
\* modification time were equal on both sides before the run (it is neither
\* hashed nor copied); under Sha256 or Blake3 there is no exception.
C9_SyncMirrorsHashedPaths ==
    \A i \in MirrorRuns :
        LET before == sync_runs[i].before
            after == sync_runs[i].after
        IN  /\ Collected(after) = Collected(source)
            /\ \A p \in Collected(after) :
                  \/ after[p].data = source[p].data
                  \/ /\ sync_config.algo = "Both"
                     /\ p \in Collected(before)
                     /\ SameSizeAndTime(before, p)

\* A completed mirroring run under a single algorithm that updated one file
\* and deleted another.
C9_Witness ==
    \E i \in MirrorRuns :
        /\ sync_config.algo = "Sha256"
        /\ sync_runs[i].updated_count = 1
        /\ sync_runs[i].deleted_count = 1

\* C10: when a non-dry-run run_sync has completed, the next run with the same
\* configuration and unchanged trees derives no action, and returns Success
\* when there are no walk errors.
C10_SyncIdempotent ==
    \A i \in DerivingRuns :
        (i > 1 /\ ~sync_config.dry_run /\ sync_runs[i - 1].result # "Err") =>
            /\ sync_runs[i].actions = <<>>
            /\ sync_runs[i].created_count + sync_runs[i].updated_count
                  + sync_runs[i].deleted_count = 0
            /\ sync_runs[i].errors = 0 => sync_runs[i].result = "Success"

\* A first run that created and updated files, followed by a second run.
C10_Witness ==
    /\ Len(sync_runs) >= 2
    /\ sync_runs[1].created_count = 1
    /\ sync_runs[1].updated_count = 1
    /\ sync_runs[2].result = "Success"

\* C11: a dry-run run_sync applies nothing: the destination tree it leaves is
\* the tree it found, file set and contents, whatever actions were derived,
\* and the destination is still the tree the first run started from.
C11_DryRunLeavesDestination ==
    \A i \in DOMAIN sync_runs :
        sync_config.dry_run =>
            /\ sync_runs[i].after = sync_runs[i].before
            /\ sync_runs[i].applied = <<>>
            /\ destination = sync_runs[1].before

\* A dry run that derived and reported two actions, a DELETE among them.
C11_Witness ==
    \E i \in DerivingRuns :
        /\ sync_config.dry_run
        /\ Len(sync_runs[i].actions) = 2
        /\ sync_runs[i].reported = sync_runs[i].actions
        /\ ActionPaths(sync_runs[i], "DELETE") # {}

\* C12: in a dry run the create, update and delete counters of the summary
\* are the numbers of planned CREATE, UPDATE and DELETE actions.
C12_DryRunCountsPlanned ==
    \A i \in DerivingRuns :
        sync_config.dry_run =>
            /\ sync_runs[i].created_count = Cardinality(ActionPaths(sync_runs[i], "CREATE"))
            /\ sync_runs[i].updated_count = Cardinality(ActionPaths(sync_runs[i], "UPDATE"))
            /\ sync_runs[i].deleted_count = Cardinality(ActionPaths(sync_runs[i], "DELETE"))

\* The effect of an applied action is present in the tree.
EffectPresent(tree, a) ==
    IF a.status = "DELETE" THEN a.file \notin DOMAIN tree
    ELSE a.file \in DOMAIN tree /\ tree[a.file].data = source[a.file].data

\* The action is one whose copy must fail: its source cannot be read.
MustFail(a) == a.status \in {"CREATE", "UPDATE"} /\ ~source[a.file].readable

\* C13: a run in which a mutation failed returns an error; the actions
\* applied are a proper prefix of the sorted action list, their effects are
\* in the destination, and the paths of the failed action and of every later
\* action are as they were; a non-dry-run whose list holds an action that
\* must fail does not complete.
C13_MutationErrorAborts ==
    \A i \in DerivingRuns :
        LET run == sync_runs[i]
            k == Len(run.applied)
        IN  /\ (~sync_config.dry_run /\ \E a \in Range(run.actions) : MustFail(a))
                  => run.failure = "mutation"
            /\ run.failure = "mutation" =>
                  /\ run.result = "Err"
                  /\ k < Len(run.actions)
                  /\ run.applied = SubSeq(run.actions, 1, k)
                  /\ \A j \in 1..k : EffectPresent(run.after, run.actions[j])
                  /\ \A j \in (k + 1)..Len(run.actions) :
                        Lookup(run.after, run.actions[j].file)
                            = Lookup(run.before, run.actions[j].file)
                  /\ i = Len(sync_runs) => destination = run.after

\* A run whose first action was applied and whose second action failed.
C13_Witness ==
    \E i \in DerivingRuns :
        /\ sync_runs[i].failure = "mutation"
        /\ Len(sync_runs[i].applied) = 1
        /\ Len(sync_runs[i].actions) = 2
        /\ sync_runs[i].after # sync_runs[i].before

\* The configuration carries an ignore pattern that does not parse.
InvalidIgnore ==
    IsSome(sync_config.ignore)
        /\ \E p \in Range(Unwrap(sync_config.ignore)) : glob_new(p) = None

\* C14: a sync whose ignore pattern is invalid, or whose thread-pool size
\* cannot be set, returns an error and leaves the destination tree as it
\* was: nothing is applied.
C14_ConfigErrorBeforeMutation ==
    \A i \in DOMAIN sync_runs :
        LET run == sync_runs[i]
        IN  (InvalidIgnore \/ (IsSome(sync_config.threads) /\ run.pool_taken)) =>
                /\ run.result = "Err"
                /\ run.failure = "config"
                /\ run.applied = <<>>
                /\ run.after = run.before
                /\ destination = run.before

\* A non-dry-run with an invalid ignore pattern over a source file that the
\* destination lacks.
C14_Witness ==
    \E i \in DOMAIN sync_runs :
        /\ InvalidIgnore
        /\ ~sync_config.dry_run
        /\ DOMAIN source \ DOMAIN sync_runs[i].before # {}
        /\ sync_runs[i].result = "Err"

ConfigRejected(run) ==
    \/ sync_args_conflict(sync_config)
    \/ InvalidIgnore
    \/ (IsSome(sync_config.threads) /\ run.pool_taken)

\* C29: walk errors do not stop a sync: when collecting the source or the
\* destination reported errors, run_sync still derives its actions from the
\* inventories collect_files returned (DELETE for every destination path
\* absent from the source inventory when delete_extraneous is set), reports
\* them all in a dry run and applies them all otherwise unless a mutation
\* fails, and then returns Error.
C29_WalkErrorsDoNotStopSync ==
    \A i \in DOMAIN sync_runs :
        LET run == sync_runs[i]
            reported_errors == walk_errors["source"] + walk_errors["destination"]
        IN  (reported_errors > 0 /\ ~ConfigRejected(run)) =>
                /\ run.failure # "config"
                /\ run.errors = reported_errors
                /\ ActionPaths(run, "CREATE") = Collected(source) \ Collected(run.before)
                /\ ActionPaths(run, "DELETE")
                      = IF sync_config.delete_extraneous
                        THEN Collected(run.before) \ Collected(source) ELSE {}
                /\ sync_config.dry_run =>
                      (run.reported = run.actions /\ run.result = "Error")
                /\ (~sync_config.dry_run /\ run.failure = "none") =>
                      /\ run.applied = run.actions
                      /\ \A a \in Range(run.actions) : EffectPresent(run.after, a)
                      /\ run.result = "Error"

\* A non-dry-run whose source walk reported an error and which deleted a
\* destination file and returned Error.
C29_Witness ==
    \E i \in DOMAIN sync_runs :
        /\ walk_errors["source"] > 0
        /\ ~sync_config.dry_run
        /\ sync_runs[i].deleted_count = 1
        /\ sync_runs[i].after # sync_runs[i].before
        /\ sync_runs[i].result = "Error"

\* C30: run_sync leaves the source tree as it found it, and changes a
\* destination path only if it derived an action for that path: a
\* destination file whose bytes equal the readable source file's, and,
\* when delete_extraneous is not set, a destination file absent from the
\* source, are as they were after any run.
C30_SyncFrame ==
    \A i \in DOMAIN sync_runs :
        LET run == sync_runs[i]
        IN  /\ run.source_after = run.source_before
            /\ source = run.source_before
            /\ \A p \in Paths :
                  Lookup(run.after, p) # Lookup(run.before, p) =>
                      \E a \in Range(run.actions) : a.file = p
            /\ \A p \in DOMAIN run.before \cap DOMAIN source :
                  (source[p].readable /\ run.before[p].readable
                      /\ source[p].data = run.before[p].data) =>
                          Lookup(run.after, p) = Lookup(run.before, p)
            /\ ~sync_config.delete_extraneous =>
                  \A p \in DOMAIN run.before \ DOMAIN source :
                      Lookup(run.after, p) = Lookup(run.before, p)

\* A non-dry-run that updated one destination file and left alone a
\* destination file the source lacks.
C30_Witness ==
    \E i \in DOMAIN sync_runs :
        /\ ~sync_config.dry_run
        /\ ~sync_config.delete_extraneous
        /\ sync_runs[i].updated_count = 1
        /\ DOMAIN sync_runs[i].before \ DOMAIN source # {}
        /\ DOMAIN sync_runs[i].after = DOMAIN sync_runs[i].before

----------------------------------------------------------------------------
(* Properties of snapshot creation and verification *)

\* The live inventory verify_snapshot collects, and the paths of the
\* snapshot it read.
LiveInventory == collect_files("folder", None, "Compare").files

StoredPaths ==
    {e.rel_path : e \in Range(snapshot_from_json(Unwrap(snapshot_file)).files)}

VerifiedStatus(p) ==
    (CHOOSE r \in Range(Unwrap(verified).results) : r.file = p).status

\* The digest an algorithm slot holds for an object: the digest of its bytes
\* when they can be read, nothing otherwise.
SlotOf(obj, slot) ==
    IF ~obj.readable THEN None
    ELSE IF slot = "sha256" THEN Some(Sha256Hex(obj.data))
    ELSE Some(Blake3Hex(obj.data))

\* C16: verify_snapshot on the folder as it was when the snapshot was
\* created reports no DIFF, MISSING or EXTRA and returns Success, for every
\* creation configuration (stated here for a folder whose walk reports no
\* error).
C16_SnapshotRoundTrip ==
    (verified # None /\ folder = Unwrap(captured) /\ walk_errors["folder"] = 0) =>
        /\ \A r \in Range(Unwrap(verified).results) :
              r.status \notin {"DIFF", "MISSING", "EXTRA"}
        /\ Unwrap(verified).exit = "Success"

\* C17: verify_snapshot works under the algorithm recorded in the snapshot
\* and reports one result per path of the snapshot or the live tree; a path
\* in both is MATCH iff every active slot of the fresh hash equals the
\* stored one and DIFF otherwise, whatever the sizes, so a file whose bytes
\* changed and could be hashed at creation or at verification is DIFF; a
\* path only in the snapshot is MISSING, only in the live tree EXTRA.
C17_VerifyByStoredHash ==
    verified # None =>
        LET v == Unwrap(verified)
            was == Unwrap(captured)
        IN  /\ v.algo = snapshot_config.algo
            /\ \A p \in Paths :
                  Count(v.results, LAMBDA r : r.file = p)
                      = IF p \in StoredPaths \cup DOMAIN LiveInventory THEN 1 ELSE 0
            /\ \A p \in StoredPaths \cap DOMAIN LiveInventory :
                  /\ VerifiedStatus(p) \in {"MATCH", "DIFF"}
                  /\ VerifiedStatus(p) = "MATCH" <=>
                        \A slot \in ActiveSlots(snapshot_config.algo) :
                            SlotOf(folder[p], slot) = SlotOf(was[p], slot)
                  /\ (folder[p].data # was[p].data
                         /\ (folder[p].readable \/ was[p].readable))
                        => VerifiedStatus(p) = "DIFF"
            /\ \A p \in StoredPaths \ DOMAIN LiveInventory : VerifiedStatus(p) = "MISSING"
            /\ \A p \in DOMAIN LiveInventory \ StoredPaths : VerifiedStatus(p) = "EXTRA"

\* A verification after a file's bytes were changed without changing its
\* size: DIFF under a single recorded algorithm.
C17_Witness ==
    /\ verified # None
    /\ snapshot_config.algo = "Sha256"
    /\ \E p \in StoredPaths \cap DOMAIN LiveInventory :
          /\ folder[p].data # Unwrap(captured)[p].data
          /\ Len(folder[p].data) = Len(Unwrap(captured)[p].data)
          /\ folder[p].readable
          /\ Unwrap(captured)[p].readable
          /\ VerifiedStatus(p) = "DIFF"

\* C18: a path whose file could not be hashed at snapshot creation or at
\* verification is never MATCH: its comparison is marked ERROR.
C18_HashErrorNeverMatch ==
    verified # None =>
        \A p \in StoredPaths \cap DOMAIN LiveInventory :
            (~folder[p].readable \/ ~Unwrap(captured)[p].readable) =>
                VerifiedStatus(p) = "ERROR"

\* A digest slot is populated iff its algorithm was requested.
Populated(h, algo) ==
    /\ IsSome(h.sha256) <=> algo \in {"Sha256", "Both"}
    /\ IsSome(h.blake3) <=> algo \in {"Blake3", "Both"}

\* C19: every HashResult returned by compute_hashes, stored in a snapshot
\* entry or carried by a verification result has a slot populated iff that
\* algorithm was requested, an empty file included.
C19_SlotsMatchRequest ==
    /\ \A p \in DOMAIN folder : \A algo \in HashAlgo :
          LET res == compute_hashes([root |-> "folder", rel |-> p], algo)
          IN  IsSome(res) => Populated(Unwrap(res), algo)
    /\ snapshot_file # None =>
          LET snapshot == snapshot_from_json(Unwrap(snapshot_file))
          IN  \A e \in Range(snapshot.files) : Populated(e.hashes, snapshot.algo)
    /\ verified # None =>
          \A r \in Range(Unwrap(verified).results) :
              /\ IsSome(r.hash1) => Populated(Unwrap(r.hash1), Unwrap(verified).algo)
              /\ IsSome(r.hash2) => Populated(Unwrap(r.hash2), Unwrap(verified).algo)

\* The relative paths of a list of records, in list order.
FilesOf(list) == [i \in DOMAIN list |-> list[i].file]

StrictlyAscending(paths) == \A i \in 1..(Len(paths) - 1) : paths[i] < paths[i + 1]

\* C25: the actions run_sync derives, applies or reports are in ascending
\* relative-path order, the results of verify_snapshot are in ascending
\* relative-path order, and so are the entries of a created snapshot.
C25_OutputSorted ==
    /\ \A i \in DOMAIN sync_runs :
          /\ StrictlyAscending(FilesOf(sync_runs[i].actions))
          /\ StrictlyAscending(FilesOf(sync_runs[i].applied))
          /\ StrictlyAscending(FilesOf(sync_runs[i].reported))
    /\ verified # None => StrictlyAscending(FilesOf(Unwrap(verified).results))
    /\ snapshot_file # None =>
          LET snapshot == snapshot_from_json(Unwrap(snapshot_file))
          IN  StrictlyAscending([i \in DOMAIN snapshot.files |-> snapshot.files[i].rel_path])

----------------------------------------------------------------------------
(* Properties of collect_files *)

Returned == consumer.pc = "returned"

\* The relative paths of the FileEntry values collect_files returned.
ReturnedPaths == {consumer.final_files[i].path.rel : i \in DOMAIN consumer.final_files}

\* The type the walker reports for an entry: a followed symlink is reported
\* as the file it points to.
ReportedType(obj) ==
    IF obj.kind = "symlink" /\ collect_args.symlink_mode = "Follow" THEN "file"
    ELSE obj.kind

\* An extension and an argument of the allow-list agree when case and a
\* leading dot of the argument are disregarded.
SameExtension(ext, arg) ==
    \/ ext = arg
    \/ (ext \in {"txt", "TXT"} /\ arg \in {"txt", "TXT", ".txt", ".TXT"})
    \/ (ext \in {"tmp", "TMP"} /\ arg \in {"tmp", "TMP", ".tmp", ".TMP"})

\* The four filters on an entry of the walked directory.
NotHiddenFilter(q) == collect_args.hidden \/ ~IsHidden(q)

NotIgnoredFilter(q) ==
    ~(IsSome(collect_args.ignore_patterns)
        /\ "*.tmp" \in Range(Unwrap(collect_args.ignore_patterns))
        /\ Extension(q) \in {"tmp"})

TypeAllowedFilter(q) ==
    \/ ReportedType(dir[q]) = "file"
    \/ (ReportedType(dir[q]) = "symlink" /\ collect_args.symlink_mode = "Compare")

ExtensionListedFilter(q) ==
    \/ collect_args.types = None
    \/ \E i \in DOMAIN Unwrap(collect_args.types) :
          SameExtension(Extension(q), Unwrap(collect_args.types)[i])

RECURSIVE Ancestors(_)
Ancestors(q) == IF Parent(q) = 0 THEN {} ELSE {Parent(q)} \cup Ancestors(Parent(q))

\* C22: no file below a directory that matches an ignore glob is returned.
C22_IgnoredSubtreeSkipped ==
    Returned =>
        \A q \in ReturnedPaths :
            \A d \in Ancestors(q) :
                ~glob_is_match(custom_ignore_set(collect_args.ignore_patterns).set, d)

\* The multiset of the values of a list.
BagOf(list) ==
    [x \in Range(list) |-> Cardinality({i \in DOMAIN list : list[i] = x})]

\* What collect_files returns is what was sent, nothing is left in a channel.
NothingLost ==
    Returned =>
        /\ BagOf(consumer.final_files) = BagOf(sent.files)
        /\ BagOf(consumer.final_errors) = BagOf(sent.errors)
        /\ Len(sent.errors) = walk_errors["dir"]
        /\ tx = <<>> /\ tx_err = <<>>
        /\ pending = {}

\* C27: for any number of walker threads and any interleaving of their
\* sends with the consumer's receives, collect_files eventually returns, and
\* the lists it returns hold exactly the multiset of FileEntry and
\* ErrorEntry values that were sent, although the consumer reads the error
\* channel only after the file channel is closed.
C27_FanInReturnsEverything == []NothingLost /\ <>Returned

\* An ErrorEntry was sent and is waiting in the error channel while two
\* walker threads are running and the consumer is still receiving files.
C27_Witness ==
    /\ consumer.pc = "files"
    /\ consumer.final_files # <<>>
    /\ tx_err # <<>>
    /\ pending # {}
    /\ Cardinality(DOMAIN walkers) = 3
    /\ \A t \in DOMAIN walkers : walkers[t] = "running"

----------------------------------------------------------------------------
(* Properties of several calls in one process *)

Explicit(i) == IsSome(calls[i].threads)

\* The call did nothing: it returned Err, reported no walk error although
\* every walk of this process meets one, and left the destination tree and
\* the snapshot file as they were.
FailedAtOnce(i) ==
    /\ ~calls[i].outcome.ok
    /\ calls[i].outcome.errors = 0
    /\ calls[i].outcome.destination = calls[i].destination_before
    /\ calls[i].outcome.snapshot_file = calls[i].snapshot_file_before

\* C28: the global thread pool is configured at most once per process: at
\* most one call with an explicit thread count succeeds in configuring it,
\* every call with an explicit thread count that follows another such call
\* returns an error before it collects files or changes the filesystem, and
\* a call without a thread count does what it does in a fresh process.
C28_PoolConfiguredAtMostOnce ==
    /\ Cardinality({i \in DOMAIN calls : Explicit(i) /\ calls[i].outcome.ok}) <= 1
    /\ \A j \in DOMAIN calls :
          /\ (Explicit(j) /\ \E i \in 1..(j - 1) : Explicit(i)) => FailedAtOnce(j)
          /\ ~Explicit(j) => /\ calls[j].outcome = calls[j].in_fresh_process
                             /\ calls[j].outcome.ok
                             /\ calls[j].outcome.errors > 0

C28_Witness ==
    /\ Len(calls) = 3
    /\ calls[1].op = "run_compare" /\ Explicit(1) /\ calls[1].outcome.ok
    /\ calls[2].op = "run_sync" /\ Explicit(2) /\ ~calls[2].outcome.ok
    /\ calls[2].in_fresh_process.destination # calls[2].destination_before
    /\ calls[2].outcome.destination = EmptyTree
    /\ calls[3].op = "run_sync" /\ ~Explicit(3) /\ calls[3].outcome.ok
    /\ destination # calls[3].destination_before

====
